---------------------------- MODULE Spec2Model ----------------------------
(***************************************************************************)
(* A model of the ts-algorithms library: the sorters (QuickSort,           *)
(* MergeSort, HeapSort, TimSort, IntroSort, RadixSort), the open-addressing *)
(* HashTable, the BinarySearchTree, the AVLTree and the BTree.             *)
(*                                                                         *)
(* Arrays are modelled as functions over 0..n-1, so that every index       *)
(* expression reads as in the source.  A sorter's working state is the     *)
(* record [arr, comparisons, swaps]: the buffer and the two counters of    *)
(* SortMetrics that the algorithms update.                                 *)
(***************************************************************************)
EXTENDS Integers, Sequences, FiniteSets, TLC

VARIABLES
    input,      \* the array the caller passes to a sorter
    options,    \* SortOptions: [descending |-> BOOLEAN]
    maxDepth,   \* the maxDepth argument of IntroSort.sortWithDepth
    algorithm,  \* the sorter that ran ("none" before the call)
    outcome,    \* the SortResult the call returned, or NoResult
    ht,         \* the HashTable object: [table, size, capacity]
    puts,       \* key -> the value of its most recent put not followed by a successful remove
    absent,     \* the keys removed (remove returned true) and not put again since
    tree,       \* the BinarySearchTree, AVLTree or BTree object, with the nodes it refers to
    stored,     \* the keys inserted into the tree and not deleted since
    ops,        \* the number of calls made on the object so far
    lastCall    \* the last call on the object and its result

sortVars == <<input, options, maxDepth, algorithm, outcome>>

hashVars == <<ht, puts, absent>>

treeVars == <<tree, stored>>

callVars == <<ops, lastCall>>

vars == <<sortVars, hashVars, treeVars, callVars>>

\* the value of the variables of a part of the library that a behaviour does not use
NotUsed == <<>>

HashIdle == ht = NotUsed /\ puts = NotUsed /\ absent = {}

TreeIdle == tree = NotUsed /\ stored = {}

\* no object is constructed: the behaviour calls the static sorters only
NoObject == HashIdle /\ TreeIdle /\ ops = 0 /\ lastCall = NotUsed

-----------------------------------------------------------------------------
(* Bounds of the model *)

MaxSmallLen == 4    \* every array over 0..MaxSmallVal up to this length
MaxSmallVal == 2
MaxExtraLen == 2    \* patterned arrays are up to this much longer than a threshold
MaxMul == 3         \* multiplier of the patterned arrays
MaxMod == 5         \* modulus of the patterned arrays
BigMod == 13        \* a modulus longer than the basic inputs: no repeated values
ModStep == 5        \* the long inputs use the moduli ModStep, 2 * ModStep, ...

-----------------------------------------------------------------------------
(* Arrays *)

Length(a) == Cardinality(DOMAIN a)

\* e, with x evaluated before it: TLC evaluates an operator's arguments only when
\* they are first read, which would nest one phase of an algorithm inside the next
Then(x, e) == IF x = x THEN e ELSE e

\* Loops.  A loop of the source is an operator xLoop(st, ..., n) over the record
\* st of the loop's variables: it returns st when the loop's condition is false,
\* and otherwise applies the loop's body.  n is a number of iterations the loop
\* cannot exceed; the iterations are split in halves, so that a long loop is
\* evaluated at a small depth.

EmptyArr == [i \in {} |-> 0]

\* Array.prototype.slice(from, to): elements from..to-1, re-indexed from 0
Slice(a, from, to) == [i \in 0..(to - from - 1) |-> a[from + i]] @@ EmptyArr

\* the multiset of an array's elements, as a function value -> count
BagOf(a) == [v \in {a[i] : i \in DOMAIN a} |-> Cardinality({i \in DOMAIN a : a[i] = v})]

\* the arrays x_i = (mul * i + add) mod m of length n
Pattern(n, mul, add, m) == [i \in 0..(n - 1) |-> (mul * i + add) % m]

RECURSIVE ArraysUpTo(_, _)
\* every array of length <= n over the values vals
ArraysUpTo(n, vals) ==
    IF n = 0 THEN {EmptyArr}
    ELSE ArraysUpTo(n - 1, vals) \cup [0..(n - 1) -> vals]

PatternArrays(lens, mods) ==
    {Pattern(n, mul, add, m) : n \in lens, mul \in 0..MaxMul, add \in 0..1, m \in mods}

-----------------------------------------------------------------------------
(* utils: comparator, swap, medianOfThree, partition *)

defaultCompare(a, b) == a - b

\* An element that is an object { key, index } is the number
\* key * IndexBase + index, with index < IndexBase
IndexBase == 64

keyOf(e) == e \div IndexBase

\* objectCompare('key'): the objects are compared by their key alone
objectCompare(a, b) ==
    IF keyOf(a) < keyOf(b) THEN -1 ELSE IF keyOf(a) > keyOf(b) THEN 1 ELSE 0

\* options.compare, which createCompareFunction defaults to defaultCompare
compareOption(o, a, b) ==
    IF "compare" \in DOMAIN o THEN objectCompare(a, b) ELSE defaultCompare(a, b)

\* createCompareFunction: the comparator, negated when descending is set
Compare(o, a, b) ==
    IF o.descending THEN 0 - compareOption(o, a, b) ELSE compareOption(o, a, b)

\* a faulty swap, which overwrites arr[i] without keeping it for arr[j]
swap_Lossy(arr, i, j) == [arr EXCEPT ![i] = arr[j]]

swap(arr, i, j) == [arr EXCEPT ![i] = arr[j], ![j] = arr[i]]

\* prepareArray: the copy [...arr] (or, in place, the caller's array) holds the
\* same elements; @@ builds the copy as an explicit array
prepareArray(arr, o) == arr @@ EmptyArr

NewMetrics(arr) == [arr |-> arr, comparisons |-> 0, swaps |-> 0]

SortResult(s) ==
    [result |-> s.arr, metrics |-> [comparisons |-> s.comparisons, swaps |-> s.swaps]]

\* medianOfThree leaves the array changed and returns right - 1
medianOfThree(arr, left, right, o) ==
    LET mid == (left + right) \div 2
        a1 == IF Compare(o, arr[left], arr[mid]) > 0 THEN swap(arr, left, mid) ELSE arr
        a2 == IF Compare(o, a1[left], a1[right]) > 0 THEN swap(a1, left, right) ELSE a1
        a3 == IF Compare(o, a2[mid], a2[right]) > 0 THEN swap(a2, mid, right) ELSE a2
    IN  [arr |-> swap(a3, mid, right - 1), index |-> right - 1]

\* the body of partition's for loop; st = [s, i, j]
partitionBody(st, pivot, o) ==
    LET s1 == [st.s EXCEPT !.comparisons = @ + 1]
        i1 == st.i + 1
    IN  IF Compare(o, s1.arr[st.j], pivot) <= 0
        THEN [s |-> IF i1 # st.j
                    THEN [s1 EXCEPT !.arr = swap(s1.arr, i1, st.j), !.swaps = @ + 1]
                    ELSE s1,
              i |-> i1, j |-> st.j + 1]
        ELSE [s |-> s1, i |-> st.i, j |-> st.j + 1]

RECURSIVE partitionLoop(_, _, _, _, _)
\* for (let j = left; j < right; j++)
partitionLoop(st, right, pivot, o, n) ==
    IF ~(st.j < right) THEN st
    ELSE IF n <= 1 THEN partitionBody(st, pivot, o)
    ELSE partitionLoop(partitionLoop(st, right, pivot, o, n \div 2),
                       right, pivot, o, n - n \div 2)

partition(s, left, right, o) ==
    LET pivot == s.arr[right]
        r == partitionLoop([s |-> s, i |-> left - 1, j |-> left], right, pivot, o,
                           Length(s.arr))
    IN  [s |-> [r.s EXCEPT !.arr = swap(r.s.arr, r.i + 1, right), !.swaps = @ + 1],
         index |-> r.i + 1]

-----------------------------------------------------------------------------
(* insertion sort of arr[left..right], as QuickSort, MergeSort, TimSort and *)
(* IntroSort each define it (the four copies are the same text)            *)

\* the body of the while loop; st = [s, j, brk], brk set by the break
insertionShift(st, key, o) ==
    LET s1 == [st.s EXCEPT !.comparisons = @ + 1]
    IN  IF Compare(o, s1.arr[st.j], key) <= 0
        THEN [s |-> s1, j |-> st.j, brk |-> TRUE]
        ELSE [s |-> [s1 EXCEPT !.arr[st.j + 1] = s1.arr[st.j], !.swaps = @ + 1],
              j |-> st.j - 1, brk |-> FALSE]

RECURSIVE insertionShiftLoop(_, _, _, _, _)
\* while (j >= left) { comparisons++; if (compare(arr[j], key) <= 0) break; ... }
insertionShiftLoop(st, left, key, o, n) ==
    IF ~(~st.brk /\ st.j >= left) THEN st
    ELSE IF n <= 1 THEN insertionShift(st, key, o)
    ELSE insertionShiftLoop(insertionShiftLoop(st, left, key, o, n \div 2),
                            left, key, o, n - n \div 2)

\* arr[j + 1] = key, where the while loop r stopped
insertKey(r, key, i) == [s |-> [r.s EXCEPT !.arr[r.j + 1] = key], i |-> i + 1]

\* the body of the for loop; st = [s, i]
insertionStep(st, left, o) ==
    insertKey(insertionShiftLoop([s |-> st.s, j |-> st.i - 1, brk |-> FALSE],
                                 left, st.s.arr[st.i], o, Length(st.s.arr)),
              st.s.arr[st.i], st.i)

RECURSIVE insertionLoop(_, _, _, _, _)
\* for (let i = left + 1; i <= right; i++)
insertionLoop(st, left, right, o, n) ==
    IF ~(st.i <= right) THEN st
    ELSE IF n <= 1 THEN insertionStep(st, left, o)
    ELSE insertionLoop(insertionLoop(st, left, right, o, n \div 2),
                       left, right, o, n - n \div 2)

insertionSort(s, left, right, o) ==
    insertionLoop([s |-> s, i |-> left + 1], left, right, o, Length(s.arr)).s

-----------------------------------------------------------------------------
(* QuickSort *)

QuickSort_INSERTION_SORT_THRESHOLD == 10

RECURSIVE QuickSort_quickSort(_, _, _, _)
QuickSort_quickSort(s, left, right, o) ==
    Then(s,
    IF right - left + 1 <= QuickSort_INSERTION_SORT_THRESHOLD
    THEN insertionSort(s, left, right, o)
    ELSE LET m == medianOfThree(s.arr, left, right, o)
             pivotIndex == m.index
             s1 == [s EXCEPT !.arr = swap(m.arr, pivotIndex, right), !.swaps = @ + 1]
             p == partition(s1, left, right, o)
             partitionIndex == p.index
             s2 == IF left < partitionIndex - 1
                   THEN QuickSort_quickSort(p.s, left, partitionIndex - 1, o)
                   ELSE p.s
         IN  IF partitionIndex + 1 < right
             THEN QuickSort_quickSort(s2, partitionIndex + 1, right, o)
             ELSE s2)

QuickSort_sort(arr, o) ==
    IF Length(arr) <= 1 THEN SortResult(NewMetrics(prepareArray(arr, o)))
    ELSE SortResult(QuickSort_quickSort(NewMetrics(prepareArray(arr, o)),
                                        0, Length(arr) - 1, o))

-----------------------------------------------------------------------------
(* MergeSort (top-down) *)

MergeSort_INSERTION_SORT_THRESHOLD == 7

\* one iteration of the three while loops of merge, which take from leftArray
\* and rightArray into arr[k]; st = [s, i, j, k]
mergeStep(st, leftArray, rightArray, o) ==
    LET s1 == [st.s EXCEPT !.comparisons = @ + 1]
    IN  IF st.i < Length(leftArray) /\ st.j < Length(rightArray)
        THEN IF Compare(o, leftArray[st.i], rightArray[st.j]) <= 0
             THEN [s |-> [s1 EXCEPT !.arr[st.k] = leftArray[st.i], !.swaps = @ + 1],
                   i |-> st.i + 1, j |-> st.j, k |-> st.k + 1]
             ELSE [s |-> [s1 EXCEPT !.arr[st.k] = rightArray[st.j], !.swaps = @ + 1],
                   i |-> st.i, j |-> st.j + 1, k |-> st.k + 1]
        ELSE IF st.i < Length(leftArray)
        THEN [s |-> [st.s EXCEPT !.arr[st.k] = leftArray[st.i], !.swaps = @ + 1],
              i |-> st.i + 1, j |-> st.j, k |-> st.k + 1]
        ELSE [s |-> [st.s EXCEPT !.arr[st.k] = rightArray[st.j], !.swaps = @ + 1],
              i |-> st.i, j |-> st.j + 1, k |-> st.k + 1]

RECURSIVE mergeLoop(_, _, _, _, _)
\* the three loops run while either side has elements left
mergeLoop(st, leftArray, rightArray, o, n) ==
    IF ~(st.i < Length(leftArray) \/ st.j < Length(rightArray)) THEN st
    ELSE IF n <= 1 THEN mergeStep(st, leftArray, rightArray, o)
    ELSE mergeLoop(mergeLoop(st, leftArray, rightArray, o, n \div 2),
                   leftArray, rightArray, o, n - n \div 2)

merge(s, left, mid, right, o) ==
    mergeLoop([s |-> s, i |-> 0, j |-> 0, k |-> left],
              Slice(s.arr, left, mid + 1), Slice(s.arr, mid + 1, right + 1),
              o, Length(s.arr)).s

RECURSIVE MergeSort_mergeSort(_, _, _, _)
MergeSort_mergeSort(s, left, right, o) ==
    Then(s,
    IF right - left + 1 <= MergeSort_INSERTION_SORT_THRESHOLD
    THEN insertionSort(s, left, right, o)
    ELSE LET mid == (left + right) \div 2
             s1 == MergeSort_mergeSort(s, left, mid, o)
             s2 == MergeSort_mergeSort(s1, mid + 1, right, o)
             s3 == [s2 EXCEPT !.comparisons = @ + 1]
         IN  IF Compare(o, s3.arr[mid], s3.arr[mid + 1]) <= 0 THEN s3
             ELSE merge(s3, left, mid, right, o))

MergeSort_sort(arr, o) ==
    IF Length(arr) <= 1 THEN SortResult(NewMetrics(prepareArray(arr, o)))
    ELSE SortResult(MergeSort_mergeSort(NewMetrics(prepareArray(arr, o)),
                                        0, Length(arr) - 1, o))

-----------------------------------------------------------------------------
(* HeapSort *)

RECURSIVE maxHeapify(_, _, _, _)
maxHeapify(s, index, heapSize, o) ==
    LET left == 2 * index + 1
        right == 2 * index + 2
        s1 == IF left < heapSize THEN [s EXCEPT !.comparisons = @ + 1] ELSE s
        l1 == IF left < heapSize /\ Compare(o, s.arr[left], s.arr[index]) > 0
              THEN left ELSE index
        s2 == IF right < heapSize THEN [s1 EXCEPT !.comparisons = @ + 1] ELSE s1
        largest == IF right < heapSize /\ Compare(o, s.arr[right], s.arr[l1]) > 0
                   THEN right ELSE l1
    IN  IF largest # index
        THEN maxHeapify([s2 EXCEPT !.arr = swap(s2.arr, index, largest), !.swaps = @ + 1],
                        largest, heapSize, o)
        ELSE s2

RECURSIVE buildMaxHeapLoop(_, _, _, _)
\* for (i = floor(n / 2) - 1; i >= 0; i--) maxHeapify(arr, i, n);  st = [s, i]
buildMaxHeapLoop(st, heapSize, o, n) ==
    IF ~(st.i >= 0) THEN st
    ELSE IF n <= 1 THEN [s |-> maxHeapify(st.s, st.i, heapSize, o), i |-> st.i - 1]
    ELSE buildMaxHeapLoop(buildMaxHeapLoop(st, heapSize, o, n \div 2),
                          heapSize, o, n - n \div 2)

buildMaxHeap(s, o) ==
    buildMaxHeapLoop([s |-> s, i |-> (Length(s.arr) \div 2) - 1],
                     Length(s.arr), o, Length(s.arr)).s

RECURSIVE heapExtractLoop(_, _, _)
\* for (i = n - 1; i > 0; i--) { swap(arr, 0, i); swaps++; maxHeapify(arr, 0, i) }
heapExtractLoop(st, o, n) ==
    IF ~(st.i > 0) THEN st
    ELSE IF n <= 1
    THEN [s |-> maxHeapify([st.s EXCEPT !.arr = swap(st.s.arr, 0, st.i),
                                        !.swaps = @ + 1], 0, st.i, o),
          i |-> st.i - 1]
    ELSE heapExtractLoop(heapExtractLoop(st, o, n \div 2), o, n - n \div 2)

HeapSort_heapSort(s, o) ==
    heapExtractLoop([s |-> buildMaxHeap(s, o), i |-> Length(s.arr) - 1],
                    o, Length(s.arr)).s

HeapSort_sort(arr, o) ==
    IF Length(arr) <= 1 THEN SortResult(NewMetrics(prepareArray(arr, o)))
    ELSE SortResult(HeapSort_heapSort(NewMetrics(prepareArray(arr, o)), o))

-----------------------------------------------------------------------------
(* TimSort *)

MIN_MERGE == 32
MIN_GALLOP == 7

\* reading arr[i] gives <<arr[i]>>, or undefined (<<>>) outside the array
Undefined == <<>>
At(arr, i) == IF i \in DOMAIN arr THEN <<arr[i]>> ELSE Undefined

\* compare(a, b) > 0 and compare(a, b) <= 0 on values that may be undefined:
\* number - undefined is NaN, and NaN > 0 and NaN <= 0 are both false
CompareGT(o, a, b) == a # Undefined /\ b # Undefined /\ Compare(o, a[1], b[1]) > 0
CompareLE(o, a, b) == a # Undefined /\ b # Undefined /\ Compare(o, a[1], b[1]) <= 0

RECURSIVE minRunLoop(_, _)
\* while (n >= MIN_MERGE) { r |= n & 1; n >>= 1 }  return n + r
minRunLoop(n, r) ==
    IF n >= MIN_MERGE
    THEN minRunLoop(n \div 2, IF r = 1 \/ n % 2 = 1 THEN 1 ELSE 0)
    ELSE n + r

\* a minRunLength that returns n as it is, without the loop
minRunLength_NoShift(n) == n

minRunLength(n) == minRunLoop(n, 0)

RECURSIVE reverseRunLoop(_, _)
\* while (start < end) { swap(arr, start, end); start++; end-- }
reverseRunLoop(st, n) ==
    IF ~(st.start < st.end) THEN st
    ELSE IF n <= 1
    THEN [arr |-> swap(st.arr, st.start, st.end),
          start |-> st.start + 1, end |-> st.end - 1]
    ELSE reverseRunLoop(reverseRunLoop(st, n \div 2), n - n \div 2)

reverseRun(arr, start, end) ==
    reverseRunLoop([arr |-> arr, start |-> start, end |-> end], Length(arr)).arr

\* one iteration of a run-finding loop; st = [s, runEnd, brk].  The first loop
\* breaks when compare(arr[runEnd], arr[runEnd + 1]) > 0, the second one when
\* it is <= 0
findRunStep(st, descending, o) ==
    LET s1 == [st.s EXCEPT !.comparisons = @ + 1]
        c == Compare(o, s1.arr[st.runEnd], s1.arr[st.runEnd + 1])
    IN  IF (~descending /\ c > 0) \/ (descending /\ c <= 0)
        THEN [s |-> s1, runEnd |-> st.runEnd, brk |-> TRUE]
        ELSE [s |-> s1, runEnd |-> st.runEnd + 1, brk |-> FALSE]

RECURSIVE findRunLoop(_, _, _, _, _)
\* while (runEnd < end) { comparisons++; if (...) break; runEnd++ }
findRunLoop(st, end, descending, o, n) ==
    IF ~(~st.brk /\ st.runEnd < end) THEN st
    ELSE IF n <= 1 THEN findRunStep(st, descending, o)
    ELSE findRunLoop(findRunLoop(st, end, descending, o, n \div 2),
                     end, descending, o, n - n \div 2)

\* the ascending scan from start; if it stopped before end, the run found so
\* far is reversed and the scan goes on while the elements strictly descend
\* after the ascending scan up: if it stopped before end, the run found so far
\* is reversed and the scan goes on while the elements strictly descend
findRunDescending(up, start, end, o) ==
    IF up.runEnd < end
    THEN findRunLoop([s |-> [up.s EXCEPT !.arr = reverseRun(up.s.arr, start, up.runEnd)],
                      runEnd |-> up.runEnd, brk |-> FALSE],
                     end, TRUE, o, Length(up.s.arr))
    ELSE up

findRun(s, start, end, o) ==
    findRunDescending(findRunLoop([s |-> s, runEnd |-> start, brk |-> FALSE],
                                  end, FALSE, o, Length(s.arr)),
                      start, end, o)

RECURSIVE TimSort_binarySearch(_, _, _, _, _, _)
\* returns [s, index]: the first index in left..right whose element is not <= target
TimSort_binarySearch(s, arr, target, left, right, o) ==
    IF left < right
    THEN LET mid == (left + right) \div 2
             s1 == [s EXCEPT !.comparisons = @ + 1]
         IN  IF CompareLE(o, At(arr, mid), target)
             THEN TimSort_binarySearch(s1, arr, target, mid + 1, right, o)
             ELSE TimSort_binarySearch(s1, arr, target, left, mid, o)
    ELSE [s |-> s, index |-> left]

RECURSIVE gallopExponential(_, _, _, _, _, _)
\* while (i < arr.length) { comparisons++; if (compare(arr[i], target) > 0) break; i += step; step *= 2 }
gallopExponential(s, arr, target, i, step, o) ==
    IF i < Length(arr)
    THEN LET s1 == [s EXCEPT !.comparisons = @ + 1]
         IN  IF CompareGT(o, At(arr, i), target) THEN [s |-> s1, i |-> i]
             ELSE gallopExponential(s1, arr, target, i + step, step * 2, o)
    ELSE [s |-> s, i |-> i]

\* the binary search between start and where the exponential search e stopped
gallopSearchWithin(e, arr, target, start, o) ==
    TimSort_binarySearch(e.s, arr, target, start,
                         IF e.i < Length(arr) THEN e.i ELSE Length(arr), o)

gallopSearch(s, arr, target, start, o) ==
    gallopSearchWithin(gallopExponential(s, arr, target, start, 1, o),
                       arr, target, start, o)

RECURSIVE copyLoop(_, _, _, _)
\* for (i = from; i < to; i++) { arr[arrayIndex] = src[i]; swaps++; arrayIndex++ }
copyLoop(st, src, to, n) ==
    IF ~(st.i < to) THEN st
    ELSE IF n <= 1
    THEN [s |-> [st.s EXCEPT !.arr[st.k] = src[st.i], !.swaps = @ + 1],
          i |-> st.i + 1, k |-> st.k + 1]
    ELSE copyLoop(copyLoop(st, src, to, n \div 2), src, to, n - n \div 2)

copyRange(s, src, from, to, arrayIndex) ==
    copyLoop([s |-> s, i |-> from, k |-> arrayIndex], src, to, Length(src)).s

\* gallopMerge, last part: gr is the search of left[gallopLeft] in right; the
\* elements of right before it are copied, and the three indices returned
gallopMergeRight(gr, right, gallopLeft, rightIndex, arrayIndex) ==
    [s |-> copyRange(gr.s, right, rightIndex, gr.index, arrayIndex),
     leftIndex |-> gallopLeft, rightIndex |-> gr.index,
     arrayIndex |-> arrayIndex + (gr.index - rightIndex)]

\* gallopMerge, after the first search gl (of right[rightIndex] in left): the
\* elements of left before it are copied, then left[gallopLeft] is searched in right
gallopMergeLeft(gl, left, right, leftIndex, rightIndex, arrayIndex, o) ==
    gallopMergeRight(
        gallopSearch(copyRange(gl.s, left, leftIndex, gl.index, arrayIndex),
                     right, At(left, gl.index), rightIndex, o),
        right, gl.index, rightIndex, arrayIndex + (gl.index - leftIndex))

gallopMerge(s, left, right, leftIndex, rightIndex, arrayIndex, o) ==
    gallopMergeLeft(gallopSearch(s, left, At(right, rightIndex), leftIndex, o),
                    left, right, leftIndex, rightIndex, arrayIndex, o)

\* i, j, k = gallopResult.leftIndex, .rightIndex, .arrayIndex; both counters reset
gallopResult(g) ==
    [s |-> g.s, i |-> g.leftIndex, j |-> g.rightIndex, k |-> g.arrayIndex,
     gallopLeft |-> 0, gallopRight |-> 0]

\* the body of the main while loop of mergeRunsOptimized;
\* st = [s, i, j, k, gallopLeft, gallopRight]
mergeRunsStep(st, left, right, o) ==
    LET s1 == [st.s EXCEPT !.comparisons = @ + 1]
    IN  IF st.gallopLeft >= MIN_GALLOP \/ st.gallopRight >= MIN_GALLOP
        THEN gallopResult(gallopMerge(s1, left, right, st.i, st.j, st.k, o))
        ELSE IF Compare(o, left[st.i], right[st.j]) <= 0
        THEN [s |-> [s1 EXCEPT !.arr[st.k] = left[st.i], !.swaps = @ + 1],
              i |-> st.i + 1, j |-> st.j, k |-> st.k + 1,
              gallopLeft |-> st.gallopLeft + 1, gallopRight |-> 0]
        ELSE [s |-> [s1 EXCEPT !.arr[st.k] = right[st.j], !.swaps = @ + 1],
              i |-> st.i, j |-> st.j + 1, k |-> st.k + 1,
              gallopLeft |-> 0, gallopRight |-> st.gallopRight + 1]

RECURSIVE mergeRunsLoop(_, _, _, _, _)
\* while (i < left.length && j < right.length)
mergeRunsLoop(st, left, right, o, n) ==
    IF ~(st.i < Length(left) /\ st.j < Length(right)) THEN st
    ELSE IF n <= 1 THEN mergeRunsStep(st, left, right, o)
    ELSE mergeRunsLoop(mergeRunsLoop(st, left, right, o, n \div 2),
                       left, right, o, n - n \div 2)

\* the two loops that copy what the main loop (which ended in m) left of either side
mergeRunsRemaining(m, left, right) ==
    copyRange(copyRange(m.s, left, m.i, Length(left), m.k),
              right, m.j, Length(right), m.k + (Length(left) - m.i))

\* the merge of the copies left and right into arr from index k on
mergeRunsInto(s, left, right, k, o) ==
    mergeRunsRemaining(
        mergeRunsLoop([s |-> s, i |-> 0, j |-> 0, k |-> k,
                       gallopLeft |-> 0, gallopRight |-> 0],
                      left, right, o, Length(s.arr)),
        left, right)

mergeRunsOptimized(s, run1, run2, o) ==
    mergeRunsInto(s, Slice(s.arr, run1.start, run1.end + 1),
                  Slice(s.arr, run2.start, run2.end + 1), run1.start, o)

RunOf(start, end) == [start |-> start, end |-> end]

\* the run stack after a merge of two neighbours: from is the (1-based) place of
\* the first of the two in stack
splice(stack, from) ==
    SubSeq(stack, 1, from - 1)
        \o <<RunOf(stack[from].start, stack[from + 1].end)>>
        \o SubSeq(stack, from + 2, Len(stack))

\* one merge of the while (stack.length >= 3) loop: run1 with run2 (from = n - 2)
\* or run2 with run3 (from = n - 1); st = [s, stack]
collapseStep(st, from, o) ==
    [s |-> mergeRunsOptimized(st.s, st.stack[from], st.stack[from + 1], o),
     stack |-> splice(st.stack, from)]

RECURSIVE collapseStack(_, _)
\* while (stack.length >= 3)
collapseStack(st, o) ==
    IF Len(st.stack) >= 3
    THEN LET n == Len(st.stack)
             run1 == st.stack[n - 2]
             run2 == st.stack[n - 1]
             run3 == st.stack[n]
         IN  collapseStack(
                 collapseStep(st,
                     IF \/ run2.end - run2.start <= run3.end - run3.start
                        \/ run1.end - run1.start
                             <= run2.end - run2.start + run3.end - run3.start
                     THEN n - 2 ELSE n - 1, o), o)
    ELSE st

RECURSIVE pushRuns(_, _, _)
\* for (const run of runs) { stack.push(run); while (stack.length >= 3) ... }
pushRuns(st, runs, o) ==
    IF runs = <<>> THEN st
    ELSE pushRuns(collapseStack([s |-> st.s, stack |-> Append(st.stack, Head(runs))], o),
                  Tail(runs), o)

RECURSIVE mergeRemaining(_, _)
\* while (stack.length > 1) { run1 = shift(); run2 = shift(); merge; unshift(joined) }
mergeRemaining(st, o) ==
    IF Len(st.stack) > 1 THEN mergeRemaining(collapseStep(st, 1, o), o) ELSE st

mergeRuns(s, runs, o) ==
    mergeRemaining(pushRuns([s |-> s, stack |-> <<>>], runs, o), o).s

\* the run found from st.start by findRun (f), extended by insertion sort to
\* minRun elements if it is shorter, is added to runs; st = [s, start, runs]
addRun(f, st, minRun, o) ==
    LET n == Length(st.s.arr)
        end == IF st.start + minRun - 1 < n - 1 THEN st.start + minRun - 1 ELSE n - 1
    IN  IF f.runEnd - st.start + 1 < minRun
        THEN [s |-> insertionSort(f.s, st.start, end, o), start |-> end + 1,
              runs |-> Append(st.runs, RunOf(st.start, end))]
        ELSE [s |-> f.s, start |-> f.runEnd + 1,
              runs |-> Append(st.runs, RunOf(st.start, f.runEnd))]

RECURSIVE collectRuns(_, _, _)
\* the while (start < n) loop of timSort
collectRuns(st, minRun, o) ==
    IF st.start < Length(st.s.arr)
    THEN collectRuns(addRun(findRun(st.s, st.start, Length(st.s.arr) - 1, o),
                            st, minRun, o), minRun, o)
    ELSE st

\* the runs timSort hands to mergeRuns, and the array as it is at that moment
TimSort_runs(s, o) ==
    collectRuns([s |-> s, start |-> 0, runs |-> <<>>], minRunLength(Length(s.arr)), o)

\* mergeRuns(arr, runs, ...) on the runs c that were found
mergeFound(c, o) == mergeRuns(c.s, c.runs, o)

TimSort_timSort(s, o) ==
    IF Length(s.arr) < MIN_MERGE THEN insertionSort(s, 0, Length(s.arr) - 1, o)
    ELSE mergeFound(TimSort_runs(s, o), o)

TimSort_sort(arr, o) ==
    IF Length(arr) <= 1 THEN SortResult(NewMetrics(prepareArray(arr, o)))
    ELSE SortResult(TimSort_timSort(NewMetrics(prepareArray(arr, o)), o))

-----------------------------------------------------------------------------
(* IntroSort.  Its working state h = [s, exhausted] is the sorter state s and *)
(* a flag set when a maxHeapify recursion had not ended after               *)
(* MaxHeapifySteps calls.                                                   *)

IntroSort_INSERTION_SORT_THRESHOLD == 16
MAX_DEPTH_FACTOR == 2
MaxHeapifySteps == 64

RECURSIVE floorLog2(_)
\* Math.floor(Math.log2(n)), n >= 1
floorLog2(n) == IF n <= 1 THEN 0 ELSE 1 + floorLog2(n \div 2)

\* one call of IntroSort.maxHeapify; st = [s, index, done].  The children are
\* computed from the element arr[0], as the source does; a child index outside
\* the array reads undefined
IntroSort_maxHeapify(st, heapSize, o) ==
    LET arr == st.s.arr
        left == 2 * (st.index - arr[0]) + 1
        right == 2 * (st.index - arr[0]) + 2
        l1 == IF left < heapSize /\ CompareGT(o, At(arr, left), At(arr, st.index))
              THEN left ELSE st.index
        largest == IF right < heapSize /\ CompareGT(o, At(arr, right), At(arr, l1))
                   THEN right ELSE l1
        compared == (IF left < heapSize THEN 1 ELSE 0) + (IF right < heapSize THEN 1 ELSE 0)
    IN  IF largest # st.index
        THEN [s |-> [st.s EXCEPT !.arr = swap(arr, st.index, largest),
                                 !.comparisons = @ + compared, !.swaps = @ + 1],
              index |-> largest, done |-> FALSE]
        ELSE [s |-> [st.s EXCEPT !.comparisons = @ + compared],
              index |-> st.index, done |-> TRUE]

RECURSIVE IntroSort_maxHeapifyLoop(_, _, _, _)
\* the recursion of maxHeapify on the affected sub-tree
IntroSort_maxHeapifyLoop(st, heapSize, o, n) ==
    IF st.done THEN st
    ELSE IF n <= 1 THEN IntroSort_maxHeapify(st, heapSize, o)
    ELSE IntroSort_maxHeapifyLoop(IntroSort_maxHeapifyLoop(st, heapSize, o, n \div 2),
                                  heapSize, o, n - n \div 2)

heapified(st, exhausted) == [s |-> st.s, exhausted |-> exhausted \/ ~st.done]

\* this.maxHeapify(arr, index, heapSize, compare, metrics)
IntroSort_heapify(h, index, heapSize, o) ==
    heapified(IntroSort_maxHeapifyLoop([s |-> h.s, index |-> index, done |-> FALSE],
                                       heapSize, o, MaxHeapifySteps),
              h.exhausted)

RECURSIVE IntroSort_buildMaxHeap(_, _, _, _, _)
\* for (i = floor(size / 2) - 1; i >= 0; i--) maxHeapify(arr, left + i, size - i)
\* st = [h, i]
IntroSort_buildMaxHeap(st, left, size, o, n) ==
    IF ~(st.i >= 0) THEN st
    ELSE IF n <= 1
    THEN [h |-> IntroSort_heapify(st.h, left + st.i, size - st.i, o), i |-> st.i - 1]
    ELSE IntroSort_buildMaxHeap(IntroSort_buildMaxHeap(st, left, size, o, n \div 2),
                                left, size, o, n - n \div 2)

\* swap(arr, left, i); metrics.swaps++
rootToEnd(h, left, i) ==
    [h EXCEPT !.s.arr = swap(h.s.arr, left, i), !.s.swaps = @ + 1]

RECURSIVE IntroSort_extract(_, _, _, _)
\* for (i = right; i > left; i--) { swap(arr, left, i); swaps++;
\*                                  maxHeapify(arr, left, i - left) };  st = [h, i]
IntroSort_extract(st, left, o, n) ==
    IF ~(st.i > left) THEN st
    ELSE IF n <= 1
    THEN [h |-> IntroSort_heapify(rootToEnd(st.h, left, st.i), left, st.i - left, o),
          i |-> st.i - 1]
    ELSE IntroSort_extract(IntroSort_extract(st, left, o, n \div 2),
                           left, o, n - n \div 2)

IntroSort_heapSort(h, left, right, o) ==
    IntroSort_extract(
        [h |-> IntroSort_buildMaxHeap([h |-> h, i |-> ((right - left + 1) \div 2) - 1],
                                      left, right - left + 1, o, Length(h.s.arr)).h,
         i |-> right],
        left, o, Length(h.s.arr)).h

\* [arr[pivotIndex], arr[right]] = [arr[right], arr[pivotIndex]]; metrics.swaps++
\* m is what medianOfThree returned
pivotToEnd(m, s, right) ==
    [s EXCEPT !.arr = swap(m.arr, m.index, right), !.swaps = @ + 1]

RECURSIVE IntroSort_introSort(_, _, _, _, _)

\* the two recursive calls of quickSort, p being what partition returned
IntroSort_sortAround(p, h, left, right, depthLimit, o) ==
    IntroSort_introSort(
        IntroSort_introSort([s |-> p.s, exhausted |-> h.exhausted],
                            left, p.index - 1, depthLimit - 1, o),
        p.index + 1, right, depthLimit - 1, o)

IntroSort_quickSort(h, left, right, depthLimit, o) ==
    IF left < right
    THEN IntroSort_sortAround(
             partition(pivotToEnd(medianOfThree(h.s.arr, left, right, o), h.s, right),
                       left, right, o),
             h, left, right, depthLimit, o)
    ELSE h

IntroSort_introSort(h, left, right, depthLimit, o) ==
    Then(h,
    IF right - left + 1 <= IntroSort_INSERTION_SORT_THRESHOLD
    THEN [h EXCEPT !.s = insertionSort(h.s, left, right, o)]
    ELSE IF depthLimit = 0 THEN IntroSort_heapSort(h, left, right, o)
    ELSE IntroSort_quickSort(h, left, right, depthLimit, o))

\* the SortResult, and whether every maxHeapify recursion had ended
IntroResult(h) ==
    [result |-> h.s.arr,
     metrics |-> [comparisons |-> h.s.comparisons, swaps |-> h.s.swaps],
     completed |-> ~h.exhausted]

IntroStart(arr, o) == [s |-> NewMetrics(prepareArray(arr, o)), exhausted |-> FALSE]

IntroSort_sortWithDepth(arr, depth, o) ==
    IF Length(arr) <= 1 THEN IntroResult(IntroStart(arr, o))
    ELSE IntroResult(IntroSort_introSort(IntroStart(arr, o), 0, Length(arr) - 1, depth, o))

IntroSort_sort(arr, o) ==
    IntroSort_sortWithDepth(arr, MAX_DEPTH_FACTOR * floorLog2(Length(arr)), o)

-----------------------------------------------------------------------------
(* RadixSort (LSD) *)

DEFAULT_BASE == 10

RECURSIVE pow(_, _)
\* Math.pow(base, position)
pow(base, position) == IF position = 0 THEN 1 ELSE base * pow(base, position - 1)

\* Math.floor(num / Math.pow(base, position)) % base, num >= 0
getDigit(num, position, base) == (num \div pow(base, position)) % base

RECURSIVE floorLog(_, _)
\* the exact floor of log_base(num), num >= 1
floorLog(num, base) == IF num < base THEN 0 ELSE 1 + floorLog(num \div base, base)

\* Math.floor(Math.log(num) / Math.log(base)) in double arithmetic, for base 10
\* and 1 <= num < 5000: the quotient of the two rounded logarithms is the exact
\* one rounded, except Math.log(1000) / Math.log(10) = 2.9999999999999996
floatFloorLog(num, base) ==
    IF base = 10 /\ num = 1000 THEN 2 ELSE floorLog(num, base)

getDigitCount(num, base) == IF num = 0 THEN 1 ELSE floatFloorLog(num, base) + 1

\* Math.max(...arr) and Math.min(...arr)
MathMax(arr) == CHOOSE x \in {arr[i] : i \in DOMAIN arr} : \A i \in DOMAIN arr : arr[i] <= x
MathMin(arr) == CHOOSE x \in {arr[i] : i \in DOMAIN arr} : \A i \in DOMAIN arr : x <= arr[i]

\* count[] after the counting loop and the cumulative loop: count[d] is the
\* number of elements whose digit is at most d
cumulativeCount(arr, digit, base) ==
    [d \in 0..(base - 1) |->
        Cardinality({i \in DOMAIN arr : getDigit(arr[i], digit, base) <= d})]

RECURSIVE buildOutput(_, _, _, _)
\* for (i = n - 1; i >= 0; i--) { output[count[digitValue] - 1] = arr[i];
\*                               count[digitValue]--; swaps++ };  st = [output, count, i]
buildOutput(st, arr, digit, base) ==
    IF st.i < 0 THEN st
    ELSE buildOutput(
             [output |-> [st.output EXCEPT
                             ![st.count[getDigit(arr[st.i], digit, base)] - 1] = arr[st.i]],
              count |-> [st.count EXCEPT ![getDigit(arr[st.i], digit, base)] = @ - 1],
              i |-> st.i - 1],
             arr, digit, base)

\* output starts as new Array(n); the last loop copies it back (n more swaps)
countingSortByDigit(s, digit, base) ==
    [s EXCEPT !.arr = buildOutput([output |-> [i \in DOMAIN s.arr |-> Undefined],
                                   count |-> cumulativeCount(s.arr, digit, base),
                                   i |-> Length(s.arr) - 1],
                                  s.arr, digit, base).output,
              !.swaps = @ + 2 * Length(s.arr)]

RECURSIVE digitLoop(_, _, _, _)
\* for (digit = 0; digit < maxDigits; digit++) countingSortByDigit(adjustedArr, digit, ...)
digitLoop(s, digit, maxDigits, base) ==
    IF digit < maxDigits
    THEN digitLoop(countingSortByDigit(s, digit, base), digit + 1, maxDigits, base)
    ELSE s

\* adjustedArr = arr.map(x => x + offset), sorted digit by digit, and
\* arr[i] = adjustedArr[i] - offset
lsdShifted(s, offset, base) ==
    [digitLoop([s EXCEPT !.arr = [i \in DOMAIN s.arr |-> s.arr[i] + offset]], 0,
               getDigitCount(MathMax(s.arr) + offset, base), base)
        EXCEPT !.arr = [i \in DOMAIN s.arr |-> @[i] - offset]]

lsdRadixSort(s, base) ==
    lsdShifted(s, IF MathMin(s.arr) < 0 THEN 0 - MathMin(s.arr) ELSE 0, base)

\* options.base || DEFAULT_BASE
baseOption(o) == IF "base" \in DOMAIN o /\ o.base # 0 THEN o.base ELSE DEFAULT_BASE

RadixSort_sort(arr, o) ==
    IF Length(arr) <= 1 THEN SortResult(NewMetrics(prepareArray(arr, o)))
    ELSE SortResult(lsdRadixSort(NewMetrics(prepareArray(arr, o)), baseOption(o)))

-----------------------------------------------------------------------------
(* The sort calls as a state machine: the caller holds an array and options, *)
(* calls one sorter, and holds its result.                                 *)

NoResult == [result |-> EmptyArr, metrics |-> [comparisons |-> -1, swaps |-> -1]]

SortOptionsSet == [descending : BOOLEAN]

SortIdle ==
    /\ maxDepth = 0
    /\ algorithm = "none"
    /\ outcome = NoResult

\* no sorter is called: the behaviour works on an object
NoSort == input = EmptyArr /\ options = [descending |-> FALSE] /\ SortIdle

\* inputs of QuickSort / MergeSort / HeapSort: every short array, and patterned
\* arrays around the two insertion-sort thresholds and beyond
BasicInputs ==
    ArraysUpTo(MaxSmallLen, 0..MaxSmallVal)
    \cup PatternArrays(MergeSort_INSERTION_SORT_THRESHOLD
                         ..(QuickSort_INSERTION_SORT_THRESHOLD + MaxExtraLen),
                     (1..MaxMod) \cup {BigMod})

InitBasic ==
    /\ input \in BasicInputs
    /\ options \in SortOptionsSet
    /\ SortIdle
    /\ NoObject

Call(alg, res) ==
    /\ algorithm = "none"
    /\ algorithm' = alg
    /\ outcome' = res
    /\ UNCHANGED <<input, options, maxDepth, hashVars, treeVars, callVars>>

CallQuickSort == Call("quickSort", QuickSort_sort(input, options))
CallMergeSort == Call("mergeSort", MergeSort_sort(input, options))
CallHeapSort == Call("heapSort", HeapSort_sort(input, options))

NextBasic == CallQuickSort \/ CallMergeSort \/ CallHeapSort

SpecBasic == InitBasic /\ [][NextBasic]_vars

-----------------------------------------------------------------------------
(* What a sort result must be *)

\* non-decreasing under the effective comparator
Ordered(a, o) ==
    \A i \in DOMAIN a : (i + 1) \in DOMAIN a => Compare(o, a[i], a[i + 1]) <= 0

IsPermutation(a, b) == DOMAIN a = DOMAIN b /\ BagOf(a) = BagOf(b)

SortedPermutation(res, arr, o) ==
    /\ IsPermutation(res.result, arr)
    /\ Ordered(res.result, o)

\* C1: QuickSort.sort, MergeSort.sort and HeapSort.sort each return a permutation
\* of the input that is non-decreasing under the effective comparator (the
\* comparator negated when descending is set).
C1_SortedPermutation ==
    algorithm \in {"quickSort", "mergeSort", "heapSort"}
        => SortedPermutation(outcome, input, options)

\* a descending quickSort call on an array long enough to be partitioned, and
\* whose input was not already in order
C1_Witness ==
    /\ algorithm = "quickSort"
    /\ options.descending
    /\ Length(input) > QuickSort_INSERTION_SORT_THRESHOLD
    /\ ~Ordered(input, options)
    /\ outcome.metrics.swaps > 0

-----------------------------------------------------------------------------
(* TimSort calls *)

\* short arrays (sorted by insertion sort alone) and arrays of MIN_MERGE or more
\* elements made of ascending or descending stretches of several lengths
LongInputs(from) ==
    PatternArrays(from..(from + MaxExtraLen), {k * ModStep : k \in 1..MaxMod})

InitTim ==
    /\ input \in ArraysUpTo(MaxSmallLen - 1, 0..MaxSmallVal) \cup LongInputs(MIN_MERGE)
    /\ options \in SortOptionsSet
    /\ SortIdle
    /\ NoObject

CallTimSort == Call("timSort", TimSort_sort(input, options))

NextTim == CallTimSort

SpecTim == InitTim /\ [][NextTim]_vars

\* every run that timSort hands to mergeRuns is a non-decreasing slice
EachOrdered(c, o) ==
    \A k \in 1..Len(c.runs) :
        Ordered(Slice(c.s.arr, c.runs[k].start, c.runs[k].end + 1), o)

RunsOrdered(arr, o) ==
    Length(arr) >= MIN_MERGE => EachOrdered(TimSort_runs(NewMetrics(arr), o), o)

\* C2: TimSort.sort returns, for an array of any length, a permutation of it that
\* is non-decreasing under the effective comparator, and each run handed to the
\* merge phase is a non-decreasing slice.
C2_TimSortSorted ==
    algorithm = "timSort"
        => SortedPermutation(outcome, input, options) /\ RunsOrdered(input, options)

-----------------------------------------------------------------------------
(* IntroSort calls *)

MaxDepthArg == 2    \* sortWithDepth is called with maxDepth in -1..MaxDepthArg

InitIntro ==
    /\ input \in ArraysUpTo(MaxSmallLen - 1, 0..MaxSmallVal)
                 \cup PatternArrays(IntroSort_INSERTION_SORT_THRESHOLD + 1
                                      ..(IntroSort_INSERTION_SORT_THRESHOLD + 1 + MaxExtraLen),
                                    (1..MaxMod) \cup {BigMod})
    /\ options \in SortOptionsSet
    /\ SortIdle
    /\ NoObject

CallIntroSort == Call("introSort", IntroSort_sort(input, options))

CallSortWithDepth ==
    \E d \in (-1)..MaxDepthArg :
        /\ algorithm = "none"
        /\ algorithm' = "sortWithDepth"
        /\ maxDepth' = d
        /\ outcome' = IntroSort_sortWithDepth(input, d, options)
        /\ UNCHANGED <<input, options, hashVars, treeVars, callVars>>

NextIntro == CallIntroSort \/ CallSortWithDepth

SpecIntro == InitIntro /\ [][NextIntro]_vars

\* C3: IntroSort.sort and IntroSort.sortWithDepth terminate and return a sorted
\* permutation of the input, for every array and every depth limit, also when a
\* range of more than 16 elements is sorted by the heap-sort fallback.
C3_IntroSortSorted ==
    algorithm \in {"introSort", "sortWithDepth"}
        => outcome.completed /\ SortedPermutation(outcome, input, options)

-----------------------------------------------------------------------------
(* RadixSort calls *)

MaxRadixLen == 3

\* integers of one to four decimal digits, of both signs
RadixValues == {-999, -10, -1, 0, 1, 10, 99, 1000}

InitRadix ==
    /\ input \in ArraysUpTo(MaxRadixLen, RadixValues)
    /\ options \in SortOptionsSet
    /\ SortIdle
    /\ NoObject

CallRadixSort == Call("radixSort", RadixSort_sort(input, options))

NextRadix == CallRadixSort

SpecRadix == InitRadix /\ [][NextRadix]_vars

\* C4: for every array of integers, negative ones included, RadixSort.sort returns
\* the same multiset of values in ascending numeric order (the shift by -min is
\* undone in the result).
C4_RadixSorted ==
    algorithm = "radixSort"
        => SortedPermutation(outcome, input, [descending |-> FALSE])

-----------------------------------------------------------------------------
(* HashTable: open addressing with linear probing.  The object is the      *)
(* record [table, size, capacity]; a slot of the table is Null or          *)
(* <<entry>> with entry = [key, value, isDeleted].  The keys are           *)
(* non-negative integers, compared by the constructor's (a, b) => a - b.   *)

DEFAULT_INITIAL_CAPACITY == 16
\* loadFactor = 0.75 = LOAD_FACTOR_NUM / LOAD_FACTOR_DEN
LOAD_FACTOR_NUM == 3
LOAD_FACTOR_DEN == 4

Null == <<>>

HashEntry(key, value) == <<[key |-> key, value |-> value, isDeleted |-> FALSE]>>

NewHashTable(initialCapacity) ==
    [table |-> [i \in 0..(initialCapacity - 1) |-> Null],
     size |-> 0,
     capacity |-> initialCapacity]

\* A key is a number or a string.  A string key is the number
\* StringKeyBase + i, which stands for the i-th string of StringKeys; a string
\* is the sequence of its character codes.
StringKeyBase == 1000

\* "a", "b", "ab" and "7"
StringKeys == << <<97>>, <<98>>, <<97, 98>>, <<55>> >>

stringOf(key) == StringKeys[key - StringKeyBase + 1]

NaN == <<>>

RECURSIVE digitsValue(_)
digitsValue(str) ==
    IF Len(str) = 0 THEN 0
    ELSE digitsValue(SubSeq(str, 1, Len(str) - 1)) * 10 + (str[Len(str)] - 48)

\* the conversion of a key to a number that a - b makes: <<n>>, or NaN for a
\* string that is not a sequence of decimal digits
ToNumber(key) ==
    IF key < StringKeyBase THEN <<key>>
    ELSE IF \A i \in 1..Len(stringOf(key)) : stringOf(key)[i] \in 48..57
    THEN <<digitsValue(stringOf(key))>>
    ELSE NaN

\* the constructor's comparator (a, b) => a - b: <<a - b>>, or NaN
HashTable_compare(a, b) ==
    IF ToNumber(a) = NaN \/ ToNumber(b) = NaN THEN NaN
    ELSE <<ToNumber(a)[1] - ToNumber(b)[1]>>

\* String(key): a string itself, and for a number the character codes of its
\* decimal digits
RECURSIVE String(_)
String(key) ==
    IF key >= StringKeyBase THEN stringOf(key)
    ELSE IF key < 10 THEN <<48 + key>>
    ELSE Append(String(key \div 10), 48 + (key % 10))

\* hash = ((hash << 5) - hash) + char; hash = hash & hash: 31 * hash + char as a
\* 32-bit integer, held as its two 16-bit halves [hi, lo]
hashChar(hash, char) ==
    [hi |-> (hash.hi * 31 + (hash.lo * 31 + char) \div 65536) % 65536,
     lo |-> (hash.lo * 31 + char) % 65536]

RECURSIVE hashLoop(_, _, _)
hashLoop(keyStr, i, hash) ==
    IF i > Len(keyStr) THEN hash ELSE hashLoop(keyStr, i + 1, hashChar(hash, keyStr[i]))

\* Math.abs(hash) % capacity, hash a signed 32-bit integer
absMod(hash, capacity) ==
    IF hash.hi < 32768
    THEN (hash.hi * 65536 + hash.lo) % capacity
    ELSE ((((65535 - hash.hi) * 65536) % capacity) + ((65536 - hash.lo) % capacity)) % capacity

hash(key, capacity) == absMod(hashLoop(String(key), 1, [hi |-> 0, lo |-> 0]), capacity)

\* this.size / this.capacity >= this.loadFactor
needsResize_Never(h) == FALSE

needsResize(h) == h.size * LOAD_FACTOR_DEN >= h.capacity * LOAD_FACTOR_NUM

\* one pass of the do-while body of put; st = [h, index, done, wrapped], done
\* when the body returned, wrapped when index came back to originalIndex
putProbe(st, originalIndex, key, value) ==
    IF st.h.table[st.index] = Null \/ st.h.table[st.index][1].isDeleted
    THEN [st EXCEPT !.h.table[st.index] = HashEntry(key, value),
                    !.h.size = @ + 1,
                    !.done = TRUE]
    ELSE IF HashTable_compare(st.h.table[st.index][1].key, key) = <<0>>
    THEN [st EXCEPT !.h.table[st.index][1].value = value, !.done = TRUE]
    ELSE [st EXCEPT !.index = (@ + 1) % st.h.capacity,
                    !.wrapped = ((st.index + 1) % st.h.capacity = originalIndex)]

RECURSIVE putLoop(_, _, _, _, _)
putLoop(st, originalIndex, key, value, n) ==
    IF st.done \/ st.wrapped THEN st
    ELSE IF n <= 1 THEN putProbe(st, originalIndex, key, value)
    ELSE putLoop(putLoop(st, originalIndex, key, value, n \div 2),
                 originalIndex, key, value, n - n \div 2)

RECURSIVE put(_, _, _)

\* resize without re-inserting the entries of the old table
resize_Empty(h, newCapacity) == NewHashTable(newCapacity)

\* the for loop of resize; st = [h, i]
resizeEntry(st, oldTable) ==
    [h |-> IF oldTable[st.i] # Null /\ ~oldTable[st.i][1].isDeleted
           THEN put(st.h, oldTable[st.i][1].key, oldTable[st.i][1].value)
           ELSE st.h,
     i |-> st.i + 1]

RECURSIVE resizeLoop(_, _, _)
resizeLoop(st, oldTable, n) ==
    IF st.i >= Length(oldTable) THEN st
    ELSE IF n <= 1 THEN resizeEntry(st, oldTable)
    ELSE resizeLoop(resizeLoop(st, oldTable, n \div 2), oldTable, n - n \div 2)

resize(h, newCapacity) ==
    resizeLoop([h |-> NewHashTable(newCapacity), i |-> 0], h.table, h.capacity).h

\* after the do-while of put: it returned, or the table is full
putRetry(st, key, value) ==
    IF st.done THEN st.h ELSE put(resize(st.h, st.h.capacity * 2), key, value)

putAt(h, index, key, value) ==
    putRetry(putLoop([h |-> h, index |-> index, done |-> FALSE, wrapped |-> FALSE],
                     index, key, value, h.capacity),
             key, value)

put(h, key, value) ==
    IF needsResize(h)
    THEN putAt(resize(h, h.capacity * 2), hash(key, h.capacity * 2), key, value)
    ELSE putAt(h, hash(key, h.capacity), key, value)

\* one pass of the do-while body of findIndex; st = [index, done, wrapped],
\* done when the body returned index, wrapped when it returned -1
findProbe(h, st, originalIndex, key) ==
    IF h.table[st.index] = Null THEN [st EXCEPT !.wrapped = TRUE]
    ELSE IF ~h.table[st.index][1].isDeleted
            /\ HashTable_compare(h.table[st.index][1].key, key) = <<0>>
    THEN [st EXCEPT !.done = TRUE]
    ELSE [st EXCEPT !.index = (@ + 1) % h.capacity,
                    !.wrapped = ((st.index + 1) % h.capacity = originalIndex)]

RECURSIVE findLoop(_, _, _, _, _)
findLoop(h, st, originalIndex, key, n) ==
    IF st.done \/ st.wrapped THEN st
    ELSE IF n <= 1 THEN findProbe(h, st, originalIndex, key)
    ELSE findLoop(h, findLoop(h, st, originalIndex, key, n \div 2),
                  originalIndex, key, n - n \div 2)

findFrom(st) == IF st.done THEN st.index ELSE -1

findIndex(h, key) ==
    findFrom(findLoop(h, [index |-> hash(key, h.capacity), done |-> FALSE, wrapped |-> FALSE],
                      hash(key, h.capacity), key, h.capacity))

\* V | undefined: <<value>> or Undefined
valueAt(h, index) == IF index # -1 THEN <<h.table[index][1].value>> ELSE Undefined

get(h, key) == valueAt(h, findIndex(h, key))

has(h, key) == findIndex(h, key) # -1

removeAt(h, index) ==
    IF index = -1 THEN [h |-> h, result |-> FALSE]
    ELSE [h |-> [h EXCEPT !.table[index][1].isDeleted = TRUE, !.size = @ - 1],
          result |-> TRUE]

\* remove returns [h, result]: the object after the call and the returned boolean
remove(h, key) == removeAt(h, findIndex(h, key))

-----------------------------------------------------------------------------
(* HashTable calls: a caller constructs a table and calls put and remove.  *)

MaxHashOps == 5     \* calls made on one table
MaxHashVal == 2     \* values are 1..MaxHashVal

\* keys that collide under every capacity (5 and 16), under the small ones only
\* (1 and 5), and not at all (0)
HashKeys == {0, 1, 5, 16}

HashValues == 1..MaxHashVal

InitialCapacities == {2, 4, DEFAULT_INITIAL_CAPACITY}

\* get(k) of every key
Gets(h) == [k \in HashKeys |-> get(h, k)]

InitHash ==
    /\ ht \in {NewHashTable(c) : c \in InitialCapacities}
    /\ ops = 0
    /\ lastCall = [op |-> "none", key |-> 0, result |-> FALSE, before |-> Gets(ht)]
    /\ puts = [k \in HashKeys |-> Undefined]
    /\ absent = {}
    /\ TreeIdle
    /\ NoSort

CallPut ==
    \E key \in HashKeys, value \in HashValues :
        /\ ops < MaxHashOps
        /\ ht' = put(ht, key, value)
        /\ ops' = ops + 1
        /\ lastCall' = [op |-> "put", key |-> key, result |-> TRUE, before |-> Gets(ht)]
        /\ puts' = [puts EXCEPT ![key] = <<value>>]
        /\ absent' = absent \ {key}
        /\ UNCHANGED <<sortVars, treeVars>>

Removed(r, key) ==
    /\ ht' = r.h
    /\ lastCall' = [op |-> "remove", key |-> key, result |-> r.result, before |-> Gets(ht)]
    /\ puts' = IF r.result THEN [puts EXCEPT ![key] = Undefined] ELSE puts
    /\ absent' = IF r.result THEN absent \cup {key} ELSE absent

CallRemove ==
    \E key \in HashKeys :
        /\ ops < MaxHashOps
        /\ Removed(remove(ht, key), key)
        /\ ops' = ops + 1
        /\ UNCHANGED <<sortVars, treeVars>>

NextHashPut == CallPut

SpecHashPut == InitHash /\ [][NextHashPut]_vars

NextHash == CallPut \/ CallRemove

SpecHash == InitHash /\ [][NextHash]_vars

\* C5: after any sequence of put calls, with colliding keys and resizes among
\* them, get(k) returns the value of the most recent put(k, v) and has(k) is
\* true, for every key k that was put.
C5_GetMostRecentPut ==
    \A k \in HashKeys :
        puts[k] # Undefined => get(ht, k) = puts[k] /\ has(ht, k)

\* the table was resized, a key sits away from its hash slot, and a key was put twice
C5_Witness ==
    /\ ht.capacity = 2 * 4
    /\ \E k \in HashKeys : has(ht, k) /\ findIndex(ht, k) # hash(k, ht.capacity)
    /\ ops > ht.size
    /\ C5_GetMostRecentPut

\* C6: after remove(k) returned true, get(k) is undefined and has(k) is false
\* until k is put again, and the remove left get of every other key unchanged.
C6_RemovedUntilPut ==
    /\ \A k \in absent : get(ht, k) = Undefined /\ ~has(ht, k)
    /\ (lastCall.op = "remove" /\ lastCall.result)
           => \A k \in HashKeys \ {lastCall.key} : get(ht, k) = lastCall.before[k]

\* C7 as stated: right after a put returns, size / capacity < 0.75.
C7_LoadFactorBelow ==
    lastCall.op = "put" => ht.size * LOAD_FACTOR_DEN < ht.capacity * LOAD_FACTOR_NUM

\* C7, amended: put doubles the capacity when the load factor it finds is at
\* least 0.75, before it inserts; so right after a put returns
\* (size - 1) / capacity < 0.75: the load factor is below 0.75 + 1 / capacity.
C7_LoadFactorBeforeInsert ==
    lastCall.op = "put"
        => (ht.size - 1) * LOAD_FACTOR_DEN < ht.capacity * LOAD_FACTOR_NUM

\* a put has just left the load factor at exactly 0.75
C7_Witness ==
    /\ lastCall.op = "put"
    /\ ht.size * LOAD_FACTOR_DEN = ht.capacity * LOAD_FACTOR_NUM

-----------------------------------------------------------------------------
(* BinarySearchTree and AVLTree.  A node reference is a positive integer,  *)
(* null is NullNode, and the object carries its nodes: nodes[id] is the    *)
(* node object the reference id points to.                                 *)

NullNode == 0

\* new: a reference that no node of the object has
FreshNode(nodes) ==
    CHOOSE id \in 1..(Cardinality(DOMAIN nodes) + 1) :
        id \notin DOMAIN nodes /\ \A j \in 1..(id - 1) : j \in DOMAIN nodes

\* the default comparator of the three trees: (a, b) => a - b
Tree_compare(a, b) == a - b

\* result.push(key)
push(arr, key) == (Length(arr) :> key) @@ arr

BSTNode(key, value) ==
    [key |-> key, value |-> value, left |-> NullNode, right |-> NullNode, parent |-> NullNode]

NewBinarySearchTree ==
    [class |-> "BinarySearchTree", root |-> NullNode, size |-> 0, nodes |-> <<>>]

\* the while loop of BinarySearchTree.insert: [updated, parent], updated
\* when the loop found the key at parent
RECURSIVE BST_descend(_, _, _, _)
BST_descend(nodes, current, parent, key) ==
    IF current = NullNode THEN [updated |-> FALSE, parent |-> parent]
    ELSE IF Tree_compare(key, nodes[current].key) = 0
    THEN [updated |-> TRUE, parent |-> current]
    ELSE IF Tree_compare(key, nodes[current].key) < 0
    THEN BST_descend(nodes, nodes[current].left, current, key)
    ELSE BST_descend(nodes, nodes[current].right, current, key)

BST_attach(t, found, newNode, key, value) ==
    IF found.updated THEN [t EXCEPT !.nodes[found.parent].value = value]
    ELSE IF Tree_compare(key, t.nodes[found.parent].key) < 0
    THEN [t EXCEPT !.nodes = (newNode :> [BSTNode(key, value) EXCEPT !.parent = found.parent])
                                 @@ [t.nodes EXCEPT ![found.parent].left = newNode],
                   !.size = @ + 1]
    ELSE [t EXCEPT !.nodes = (newNode :> [BSTNode(key, value) EXCEPT !.parent = found.parent])
                                 @@ [t.nodes EXCEPT ![found.parent].right = newNode],
                   !.size = @ + 1]

BST_insert(t, key, value) ==
    IF t.root = NullNode
    THEN [t EXCEPT !.root = FreshNode(t.nodes),
                   !.nodes = FreshNode(t.nodes) :> BSTNode(key, value),
                   !.size = 1]
    ELSE BST_attach(t, BST_descend(t.nodes, t.root, NullNode, key),
                    FreshNode(t.nodes), key, value)

RECURSIVE findNode(_, _, _)
findNode(nodes, current, key) ==
    IF current = NullNode THEN NullNode
    ELSE IF Tree_compare(key, nodes[current].key) = 0 THEN current
    ELSE IF Tree_compare(key, nodes[current].key) < 0
    THEN findNode(nodes, nodes[current].left, key)
    ELSE findNode(nodes, nodes[current].right, key)

RECURSIVE findMin(_, _)
findMin(nodes, node) ==
    IF nodes[node].left # NullNode THEN findMin(nodes, nodes[node].left) ELSE node

setParent(nodes, node, parent) ==
    IF node # NullNode THEN [nodes EXCEPT ![node].parent = parent] ELSE nodes

\* replaceNode; oldNode is referred to by nothing afterwards and leaves nodes
replaceNode(t, oldNode, newNode) ==
    [root |-> IF t.nodes[oldNode].parent = NullNode THEN newNode ELSE t.root,
     nodes |-> [id \in DOMAIN t.nodes \ {oldNode} |->
                   setParent(
                       IF t.nodes[oldNode].parent = NullNode THEN t.nodes
                       ELSE IF oldNode = t.nodes[t.nodes[oldNode].parent].left
                       THEN [t.nodes EXCEPT ![t.nodes[oldNode].parent].left = newNode]
                       ELSE [t.nodes EXCEPT ![t.nodes[oldNode].parent].right = newNode],
                       newNode, t.nodes[oldNode].parent)[id]],
     class |-> t.class,
     size |-> t.size]

RECURSIVE deleteNode(_, _)

\* deleting the successor without copying its key and value into node
deleteSuccessor_NoCopy(t, node, successor) == deleteNode(t, successor)

\* deleteNode, node with two children: copy the successor, delete the successor
deleteSuccessor(t, node, successor) ==
    deleteNode([t EXCEPT !.nodes[node].key = t.nodes[successor].key,
                         !.nodes[node].value = t.nodes[successor].value],
               successor)

deleteNode(t, node) ==
    IF t.nodes[node].left = NullNode /\ t.nodes[node].right = NullNode
    THEN replaceNode(t, node, NullNode)
    ELSE IF t.nodes[node].left = NullNode THEN replaceNode(t, node, t.nodes[node].right)
    ELSE IF t.nodes[node].right = NullNode THEN replaceNode(t, node, t.nodes[node].left)
    ELSE deleteSuccessor(t, node, findMin(t.nodes, t.nodes[node].right))

\* delete returns [t, result]: the object after the call and the returned boolean
deleteFound(t, node) ==
    IF node = NullNode THEN [t |-> t, result |-> FALSE]
    ELSE [t |-> [deleteNode(t, node) EXCEPT !.size = @ - 1], result |-> TRUE]

BST_delete(t, key) == deleteFound(t, findNode(t.nodes, t.root, key))

RECURSIVE inorderTraversal(_, _, _)
inorderTraversal(nodes, node, result) ==
    IF node = NullNode THEN result
    ELSE inorderTraversal(nodes, nodes[node].right,
                          push(inorderTraversal(nodes, nodes[node].left, result),
                               nodes[node].key))

inorder(t) == inorderTraversal(t.nodes, t.root, EmptyArr)

AVLNode(key, value) ==
    [key |-> key, value |-> value, left |-> NullNode, right |-> NullNode,
     parent |-> NullNode, height |-> 1]

NewAVLTree == [class |-> "AVLTree", root |-> NullNode, size |-> 0, nodes |-> <<>>]

getHeight(nodes, node) == IF node # NullNode THEN nodes[node].height ELSE 0

getBalance(nodes, node) ==
    getHeight(nodes, nodes[node].left) - getHeight(nodes, nodes[node].right)

updateHeight(nodes, node) ==
    [nodes EXCEPT ![node].height =
        (IF getHeight(nodes, nodes[node].left) >= getHeight(nodes, nodes[node].right)
         THEN getHeight(nodes, nodes[node].left)
         ELSE getHeight(nodes, nodes[node].right)) + 1]

\* the rotations return [nodes, node]: the nodes after the call and the returned root
rightRotateAt(nodes, y, x, T2) ==
    [nodes |-> updateHeight(
                   updateHeight(
                       setParent([nodes EXCEPT ![x].right = y,
                                               ![y].left = T2,
                                               ![x].parent = nodes[y].parent,
                                               ![y].parent = x],
                                 T2, y),
                       y),
                   x),
     node |-> x]

rightRotate_None(nodes, y) == [nodes |-> nodes, node |-> y]

rightRotate(nodes, y) == rightRotateAt(nodes, y, nodes[y].left, nodes[nodes[y].left].right)

leftRotateAt(nodes, x, y, T2) ==
    [nodes |-> updateHeight(
                   updateHeight(
                       setParent([nodes EXCEPT ![y].left = x,
                                               ![x].right = T2,
                                               ![y].parent = nodes[x].parent,
                                               ![x].parent = y],
                                 T2, x),
                       x),
                   y),
     node |-> y]

leftRotate(nodes, x) == leftRotateAt(nodes, x, nodes[x].right, nodes[nodes[x].right].left)

\* node.left = r.node, node.right = r.node, after a call that returned r = [nodes, node]
setLeft(r, node) == [r.nodes EXCEPT ![node].left = r.node]
setRight(r, node) == [r.nodes EXCEPT ![node].right = r.node]

\* the same, followed by if (node.left) node.left.parent = node, and updateHeight(node)
linkLeft(r, node) == updateHeight(setParent(setLeft(r, node), r.node, node), node)
linkRight(r, node) == updateHeight(setParent(setRight(r, node), r.node, node), node)

\* insertNode after updateHeight(node): the four rotation cases
rebalance(nodes, node, key) ==
    IF getBalance(nodes, node) > 1 /\ Tree_compare(key, nodes[nodes[node].left].key) < 0
    THEN rightRotate(nodes, node)
    ELSE IF getBalance(nodes, node) < -1
            /\ Tree_compare(key, nodes[nodes[node].right].key) > 0
    THEN leftRotate(nodes, node)
    ELSE IF getBalance(nodes, node) > 1
            /\ Tree_compare(key, nodes[nodes[node].left].key) > 0
    THEN rightRotate(setLeft(leftRotate(nodes, nodes[node].left), node), node)
    ELSE IF getBalance(nodes, node) < -1
            /\ Tree_compare(key, nodes[nodes[node].right].key) < 0
    THEN leftRotate(setRight(rightRotate(nodes, nodes[node].right), node), node)
    ELSE [nodes |-> nodes, node |-> node]

RECURSIVE insertNode(_, _, _, _)
insertNode(nodes, node, key, value) ==
    IF node = NullNode
    THEN [nodes |-> (FreshNode(nodes) :> AVLNode(key, value)) @@ nodes,
          node |-> FreshNode(nodes)]
    ELSE IF Tree_compare(key, nodes[node].key) = 0
    THEN [nodes |-> [nodes EXCEPT ![node].value = value], node |-> node]
    ELSE IF Tree_compare(key, nodes[node].key) < 0
    THEN rebalance(linkLeft(insertNode(nodes, nodes[node].left, key, value), node),
                   node, key)
    ELSE rebalance(linkRight(insertNode(nodes, nodes[node].right, key, value), node),
                   node, key)

inserted(t, r) == [t EXCEPT !.root = r.node, !.nodes = r.nodes, !.size = @ + 1]

AVL_insert(t, key, value) == inserted(t, insertNode(t.nodes, t.root, key, value))

-----------------------------------------------------------------------------
(* BinarySearchTree and AVLTree calls: a caller constructs one of the two  *)
(* trees, inserts keys and, on the BinarySearchTree, deletes keys.         *)

MaxTreeOps == 6     \* calls made on one tree

TreeKeys == {10, 20, 25, 30, 40, 50}

\* the value a caller passes with a key: the number of the call, so that no two
\* inserts pass the same value
CallValue == ops + 1

InitTrees ==
    /\ tree \in {NewBinarySearchTree, NewAVLTree}
    /\ stored = {}
    /\ ops = 0
    /\ lastCall = [op |-> "none", key |-> 0, result |-> FALSE, present |-> FALSE]
    /\ HashIdle
    /\ NoSort

CallBSTInsert ==
    \E key \in TreeKeys :
        /\ tree.class = "BinarySearchTree"
        /\ ops < MaxTreeOps
        /\ tree' = BST_insert(tree, key, CallValue)
        /\ stored' = stored \cup {key}
        /\ ops' = ops + 1
        /\ lastCall' = [op |-> "insert", key |-> key, result |-> TRUE,
                        present |-> key \in stored]
        /\ UNCHANGED <<sortVars, hashVars>>

\* lastCall.present: the key was stored before the call
Deleted(r, key) ==
    /\ tree' = r.t
    /\ stored' = stored \ {key}
    /\ lastCall' = [op |-> "delete", key |-> key, result |-> r.result,
                    present |-> key \in stored]

CallBSTDelete ==
    \E key \in TreeKeys :
        /\ tree.class = "BinarySearchTree"
        /\ ops < MaxTreeOps
        /\ Deleted(BST_delete(tree, key), key)
        /\ ops' = ops + 1
        /\ UNCHANGED <<sortVars, hashVars>>

CallAVLInsert ==
    \E key \in TreeKeys :
        /\ tree.class = "AVLTree"
        /\ ops < MaxTreeOps
        /\ tree' = AVL_insert(tree, key, CallValue)
        /\ stored' = stored \cup {key}
        /\ ops' = ops + 1
        /\ lastCall' = [op |-> "insert", key |-> key, result |-> TRUE,
                        present |-> key \in stored]
        /\ UNCHANGED <<sortVars, hashVars>>

NextTrees == CallBSTInsert \/ CallBSTDelete \/ CallAVLInsert

SpecTrees == InitTrees /\ [][NextTrees]_vars

\* strictly ascending in comparator order
Ascending(a) ==
    \A i \in DOMAIN a : (i + 1) \in DOMAIN a => Tree_compare(a[i], a[i + 1]) < 0

\* C8: after any sequence of inserts into a BinarySearchTree or an AVLTree, and
\* of deletes on the BinarySearchTree, inorder() lists exactly the keys stored, in
\* strictly ascending order; delete(k) removes k and nothing else, and returns
\* false exactly when k was not stored.
C8_InorderAscending ==
    /\ Ascending(inorder(tree))
    /\ {inorder(tree)[i] : i \in DOMAIN inorder(tree)} = stored
    /\ lastCall.op = "delete" => lastCall.result = lastCall.present

\* a delete has taken a key out of a BinarySearchTree whose root still has two
\* children
C8_Witness ==
    /\ tree.class = "BinarySearchTree"
    /\ lastCall.op = "delete" /\ lastCall.result
    /\ Cardinality(stored) >= 3
    /\ tree.nodes[tree.root].left # NullNode /\ tree.nodes[tree.root].right # NullNode
    /\ C8_InorderAscending

\* the height of the subtree at node, counted on the links
RECURSIVE TrueHeight(_, _)
TrueHeight(nodes, node) ==
    IF node = NullNode THEN 0
    ELSE 1 + (IF TrueHeight(nodes, nodes[node].left) >= TrueHeight(nodes, nodes[node].right)
              THEN TrueHeight(nodes, nodes[node].left)
              ELSE TrueHeight(nodes, nodes[node].right))

\* the nodes were created for these keys, in this order
InsertedInOrder(t, keys) ==
    DOMAIN t.nodes = 1..Len(keys) /\ \A id \in 1..Len(keys) : t.nodes[id].key = keys[id]

\* C9: after every insert into an AVLTree, at every node the heights of the two
\* subtrees differ by at most 1 and the height field is the true height; after
\* the inserts 10, 20, 30, 40, 50, 25 the height of the tree is at most 3.
C9_AVLBalanced ==
    tree.class = "AVLTree" =>
        /\ \A id \in DOMAIN tree.nodes :
               /\ TrueHeight(tree.nodes, tree.nodes[id].left)
                      - TrueHeight(tree.nodes, tree.nodes[id].right) \in {-1, 0, 1}
               /\ tree.nodes[id].height = TrueHeight(tree.nodes, id)
        /\ InsertedInOrder(tree, <<10, 20, 30, 40, 50, 25>>)
               => TrueHeight(tree.nodes, tree.root) <= 3

\* the tree after the inserts 10, 20, 30, 40, 50, 25: 30 at the root, height 3
C9_Witness ==
    /\ tree.class = "AVLTree"
    /\ InsertedInOrder(tree, <<10, 20, 30, 40, 50, 25>>)
    /\ tree.nodes[tree.root].key = 30
    /\ TrueHeight(tree.nodes, tree.root) = 3
    /\ C9_AVLBalanced

-----------------------------------------------------------------------------
(* BTree.  The object is [root, t, nodes]; a node is [keys, children,       *)
(* isLeaf, size] with keys and children arrays, children holding node      *)
(* references.                                                             *)

DEFAULT_DEGREE == 3

BTreeNode(isLeaf) == [keys |-> EmptyArr, children |-> EmptyArr, isLeaf |-> isLeaf, size |-> 0]

NewBTree(t) == [root |-> 1, t |-> t, nodes |-> 1 :> BTreeNode(TRUE)]

\* arr[i] = v
SetAt(arr, i, v) == (i :> v) @@ arr

\* for (j = last; j >= first; j--) arr[j + 1] = arr[j]
RECURSIVE shiftUp(_, _, _)
shiftUp(arr, last, first) ==
    IF last < first THEN arr ELSE shiftUp(SetAt(arr, last + 1, arr[last]), last - 1, first)

\* splitChild, the two copy loops: the node that takes the upper half of child
upperHalf(child, t) ==
    [keys |-> [j \in 0..(t - 2) |-> child.keys[j + t]] @@ EmptyArr,
     children |-> IF child.isLeaf THEN EmptyArr
                  ELSE [j \in 0..(t - 1) |-> child.children[j + t]],
     isLeaf |-> child.isLeaf,
     size |-> t - 1]

\* splitChild, on the parent: make room for newNode and the median key
parentAfterSplit(parent, childIndex, newNode, median) ==
    [parent EXCEPT
        !.children = SetAt(shiftUp(parent.children, parent.size, childIndex + 1),
                           childIndex + 1, newNode),
        !.keys = SetAt(shiftUp(parent.keys, parent.size - 1, childIndex),
                       childIndex, median),
        !.size = @ + 1]

splitChildInto(nodes, t, parent, childIndex, child, newNode) ==
    (newNode :> upperHalf(nodes[child], t))
        @@ [nodes EXCEPT ![child].size = t - 1,
                         ![parent] = parentAfterSplit(nodes[parent], childIndex, newNode,
                                                      nodes[child].keys[t - 1])]

splitChild(nodes, t, parent, childIndex) ==
    splitChildInto(nodes, t, parent, childIndex,
                   nodes[parent].children[childIndex], FreshNode(nodes))

\* insertNonFull, the while loop of both branches: the index i it stops at
RECURSIVE keyIndex(_, _, _)
keyIndex(keys, i, key) ==
    IF i >= 0 /\ Tree_compare(key, keys[i]) < 0 THEN keyIndex(keys, i - 1, key) ELSE i

\* insertNonFull on a leaf: shift the greater keys up and store key
insertInLeaf(node, i, key) ==
    [node EXCEPT !.keys = SetAt(shiftUp(node.keys, node.size - 1, i + 1), i + 1, key),
                 !.size = @ + 1]

RECURSIVE insertNonFull(_, _, _, _)

\* descending into children[i] after the split without looking at the key that
\* moved up
insertBelow_NoCompare(nodes, t, node, i, key) ==
    insertNonFull(nodes, t, nodes[node].children[i], key)

\* insertNonFull on an internal node, after a possible split of children[i]
insertBelow(nodes, t, node, i, key) ==
    IF Tree_compare(key, nodes[node].keys[i]) > 0
    THEN insertNonFull(nodes, t, nodes[node].children[i + 1], key)
    ELSE insertNonFull(nodes, t, nodes[node].children[i], key)

insertInChild(nodes, t, node, i, key) ==
    IF nodes[nodes[node].children[i]].size = 2 * t - 1
    THEN insertBelow(splitChild(nodes, t, node, i), t, node, i, key)
    ELSE insertNonFull(nodes, t, nodes[node].children[i], key)

insertNonFull(nodes, t, node, key) ==
    IF nodes[node].isLeaf
    THEN [nodes EXCEPT ![node] = insertInLeaf(nodes[node],
                                              keyIndex(nodes[node].keys, nodes[node].size - 1, key),
                                              key)]
    ELSE insertInChild(nodes, t, node,
                       keyIndex(nodes[node].keys, nodes[node].size - 1, key) + 1, key)

\* insert with a full root: a new root above the old one, which is split
growRoot(b, newRoot) ==
    [b EXCEPT !.root = newRoot,
              !.nodes = splitChild((newRoot :> [BTreeNode(FALSE) EXCEPT
                                                   !.children = SetAt(EmptyArr, 0, b.root)])
                                       @@ b.nodes,
                                   b.t, newRoot, 0)]

insertAtRoot(b, key) == [b EXCEPT !.nodes = insertNonFull(b.nodes, b.t, b.root, key)]

BTree_insert(b, key) ==
    IF b.nodes[b.root].size = 2 * b.t - 1
    THEN insertAtRoot(growRoot(b, FreshNode(b.nodes)), key)
    ELSE insertAtRoot(b, key)

\* searchNode, the while loop: the first i with i >= size or key <= keys[i]
RECURSIVE searchIndex(_, _, _)
searchIndex(node, i, key) ==
    IF i < node.size /\ Tree_compare(key, node.keys[i]) > 0
    THEN searchIndex(node, i + 1, key)
    ELSE i

RECURSIVE searchNode(_, _, _)

\* searchNode after the while loop; the result is <<key>> or Undefined
searchAt(nodes, node, i, key) ==
    IF i < nodes[node].size /\ Tree_compare(key, nodes[node].keys[i]) = 0
    THEN <<nodes[node].keys[i]>>
    ELSE IF nodes[node].isLeaf THEN Undefined
    ELSE searchNode(nodes, nodes[node].children[i], key)

searchNode(nodes, node, key) == searchAt(nodes, node, searchIndex(nodes[node], 0, key), key)

BTree_search(b, key) == searchNode(b.nodes, b.root, key)

-----------------------------------------------------------------------------
(* BTree calls: a caller constructs a BTree of minimum degree 2 or 3 and   *)
(* inserts keys that the tree does not hold yet, in any order.             *)

MaxBTreeInserts == 10   \* inserts made into one tree
MaxBTreeKey == 10       \* keys are 1..MaxBTreeKey

BTreeKeys == 1..MaxBTreeKey

InitBTree ==
    /\ tree \in {NewBTree(t) : t \in {2, DEFAULT_DEGREE}}
    /\ stored = {}
    /\ ops = 0
    /\ lastCall = [op |-> "none", key |-> 0, result |-> FALSE, present |-> FALSE]
    /\ HashIdle
    /\ NoSort

CallBTreeInsert ==
    \E key \in BTreeKeys :
        /\ ops < MaxBTreeInserts
        /\ key \notin stored
        /\ tree' = BTree_insert(tree, key)
        /\ stored' = stored \cup {key}
        /\ ops' = ops + 1
        /\ lastCall' = [op |-> "insert", key |-> key, result |-> TRUE,
                        present |-> key \in stored]
        /\ UNCHANGED <<sortVars, hashVars>>

NextBTree == CallBTreeInsert

SpecBTree == InitBTree /\ [][NextBTree]_vars

\* the depths of the leaves below node, along the size + 1 children in use
RECURSIVE LeafDepths(_, _)
LeafDepths(nodes, node) ==
    IF nodes[node].isLeaf THEN {0}
    ELSE {d + 1 : d \in UNION {LeafDepths(nodes, nodes[node].children[j]) :
                                   j \in 0..nodes[node].size}}

KeyCounts(b) ==
    \A id \in DOMAIN b.nodes :
        /\ b.nodes[id].size <= 2 * b.t - 1
        /\ id # b.root => b.nodes[id].size >= b.t - 1

ChildCounts(b) ==
    \A id \in DOMAIN b.nodes :
        ~b.nodes[id].isLeaf => Length(b.nodes[id].children) = b.nodes[id].size + 1

\* C10: after every insert into a BTree of minimum degree t >= 2, every node
\* other than the root holds between t - 1 and 2t - 1 keys, the root at most
\* 2t - 1, every internal node has exactly one child more than it has keys, and
\* all leaves are at the same depth.
C10_BTreeShape ==
    lastCall.op = "insert" =>
        /\ KeyCounts(tree)
        /\ ChildCounts(tree)
        /\ Cardinality(LeafDepths(tree.nodes, tree.root)) = 1

\* C11: after any sequence of inserts into a BTree, search(k) returns k for
\* every key k that was inserted and undefined for every key that was not.
C11_BTreeSearch ==
    \A k \in BTreeKeys :
        BTree_search(tree, k) = IF k \in stored THEN <<k>> ELSE Undefined

\* an internal node has been split (the root is two levels above the leaves),
\* and some keys are in the tree and some are not
C11_Witness ==
    /\ LeafDepths(tree.nodes, tree.root) = {2}
    /\ stored # {} /\ stored # BTreeKeys
    /\ C11_BTreeSearch

-----------------------------------------------------------------------------
(* Stability: the sorters called with a comparator under which distinct   *)
(* elements compare equal                                                 *)

\* the objects { key: arr[i], index: i }
Indexed(arr) == [i \in DOMAIN arr |-> arr[i] * IndexBase + i] @@ EmptyArr

\* the position an element had in the input
indexOf(e) == e % IndexBase

\* keyed arrays: the short ones, some long enough for MergeSort to merge, and
\* some of MIN_MERGE or more elements, with few distinct keys
StableInputs ==
    {Indexed(a) : a \in ArraysUpTo(MaxSmallLen - 1, 0..MaxSmallVal)
                        \cup PatternArrays((MergeSort_INSERTION_SORT_THRESHOLD + 1)
                                             ..(MergeSort_INSERTION_SORT_THRESHOLD + 1
                                                + MaxExtraLen),
                                           1..MaxMod)
                        \cup PatternArrays(MIN_MERGE..(MIN_MERGE + MaxExtraLen),
                                           1..MaxMod)}

InitStable ==
    /\ input \in StableInputs
    /\ options \in [descending : BOOLEAN, compare : {"objectCompare"}]
    /\ SortIdle
    /\ NoObject

NextStable == CallMergeSort \/ CallTimSort \/ CallRadixSort

SpecStable == InitStable /\ [][NextStable]_vars

\* elements that compare equal are in the order of their input positions
Stable(res, o) ==
    \A i, j \in DOMAIN res :
        (i < j /\ Compare(o, res[i], res[j]) = 0) => indexOf(res[i]) < indexOf(res[j])

\* C12: MergeSort.sort, TimSort.sort and RadixSort.sort are stable: any two
\* elements that compare equal are in the result in the relative order they had
\* in the input, for every input length.
C12_Stable ==
    algorithm \in {"mergeSort", "timSort", "radixSort"}
        => Stable(outcome.result, options)

-----------------------------------------------------------------------------
(* Sort: the unified interface, and the array object a call returns        *)

radixBase == 10           \* Sort.config.radixBase
SmallArrayLength == 50    \* autoSort: up to this length, QuickSort
LargeArrayLength == 10000 \* autoSort: beyond this length, TimSort

AlgorithmType == {"quickSort", "mergeSort", "heapSort", "timSort", "introSort", "radixSort"}

\* the two array objects of a call: the one the caller passed, and a copy
Passed == "arr"
Spread == "[...arr]"

\* prepareArray: the object it returns
preparedObject(o) == IF "inPlace" \in DOMAIN o /\ o.inPlace THEN Passed ELSE Spread

Threw(message) == [error |-> message]

sorterSort(alg, arr, o) ==
    CASE alg = "quickSort" -> QuickSort_sort(arr, o)
      [] alg = "mergeSort" -> MergeSort_sort(arr, o)
      [] alg = "heapSort" -> HeapSort_sort(arr, o)
      [] alg = "timSort" -> TimSort_sort(arr, o)
      [] alg = "introSort" -> IntroSort_sort(arr, o)
      [] alg = "radixSort" -> RadixSort_sort(arr, o)

\* a sorter's sort(arr, options): every sorter sorts and returns the array
\* that prepareArray(arr, options) gave it
Sorter(alg, arr, o) == sorterSort(alg, arr, o) @@ [object |-> preparedObject(o)]

Sort_sort(arr, alg, o) ==
    IF alg = "radixSort"
    THEN IF At(arr, 0) # Undefined
         THEN Sorter(alg, arr, [base |-> radixBase] @@ o)
         ELSE Threw("RadixSort is only supported for numbers")
    ELSE IF alg \in AlgorithmType THEN Sorter(alg, arr, o)
    ELSE Threw("Unknown algorithm")

Sort_autoSort(arr, o) ==
    IF Length(arr) <= 1
    THEN [result |-> arr @@ EmptyArr,
          metrics |-> [comparisons |-> 0, swaps |-> 0],
          object |-> Spread]
    ELSE IF Length(arr) <= SmallArrayLength THEN Sorter("quickSort", arr, o)
    ELSE IF Length(arr) > LargeArrayLength THEN Sorter("timSort", arr, o)
    ELSE Sorter("introSort", arr, o)

\* what the caller's array holds after a call that returned res
callerArray(arr, res) ==
    IF "object" \in DOMAIN res /\ res.object = Passed THEN res.result ELSE arr

\* every short array, and arrays on both sides of autoSort's SmallArrayLength
\* whose elements are not all the same
SortInputs ==
    ArraysUpTo(MaxSmallLen - 1, 0..MaxSmallVal)
    \cup {a \in PatternArrays(SmallArrayLength..(SmallArrayLength + 1), {MaxMod, BigMod}) :
             a[0] # a[1]}

InitSort ==
    /\ input \in SortInputs
    /\ options \in [descending : BOOLEAN, inPlace : BOOLEAN]
    /\ SortIdle
    /\ NoObject

\* the call of one entry point; outcome.arr is the caller's array afterwards
Enter(entry, alg, res) ==
    /\ algorithm = "none"
    /\ algorithm' = alg
    /\ lastCall' = [op |-> entry]
    /\ outcome' = res @@ [arr |-> callerArray(input, res)]
    /\ UNCHANGED <<input, options, maxDepth, hashVars, treeVars, ops>>

CallSorter == \E alg \in AlgorithmType : Enter("sorter", alg, Sorter(alg, input, options))

CallSort ==
    \E alg \in AlgorithmType \cup {"bubbleSort"} :
        Enter("Sort.sort", alg, Sort_sort(input, alg, options))

CallAutoSort == Enter("Sort.autoSort", "autoSort", Sort_autoSort(input, options))

NextSort == CallSorter \/ CallSort \/ CallAutoSort

SpecSort == InitSort /\ [][NextSort]_vars

Entered(entries) == lastCall # NotUsed /\ lastCall.op \in entries

Returned == "error" \notin DOMAIN outcome

Reversed(a) == [i \in DOMAIN a |-> a[Length(a) - 1 - i]]

Flipped(o) == [o EXCEPT !.descending = ~@]

\* C13: for the same input and comparator, the result of Sort.sort with
\* descending: true is exactly the reverse of its result with descending: false,
\* for each algorithm name, radixSort included.
C13_DescendingReverses ==
    (Entered({"Sort.sort"}) /\ Returned)
        => outcome.result = Reversed(Sort_sort(input, algorithm, Flipped(options)).result)


\* the result is the caller's array object exactly when inPlace is set, and the
\* caller's array is otherwise left as it was
SameObject ==
    IF options.inPlace
    THEN outcome.object = Passed /\ outcome.arr = outcome.result
    ELSE outcome.object = Spread /\ outcome.arr = input

\* C14: with inPlace: true every sort entry point (each sorter's sort, Sort.sort
\* and Sort.autoSort, for every input length including 0 and 1) returns as result
\* the very array object the caller passed, now sorted; without inPlace the result
\* is a fresh array and the caller's array is left unchanged.
C14_InPlaceIdentity ==
    (Entered({"sorter", "Sort.sort", "Sort.autoSort"}) /\ Returned)
        => /\ SameObject
           /\ options.inPlace => Ordered(outcome.arr, options)


\* C15: for an empty or single-element array, each sorter's sort and Sort.sort
\* with each supported algorithm name (radixSort included) return without error a
\* result equal to the input, with metrics.comparisons = 0 and metrics.swaps = 0.
C15_TrivialInputs ==
    (Entered({"sorter", "Sort.sort"}) /\ algorithm \in AlgorithmType /\ Length(input) <= 1)
        => /\ Returned
           /\ outcome.result = input
           /\ outcome.metrics = [comparisons |-> 0, swaps |-> 0]

-----------------------------------------------------------------------------
(* Search: searches in an array.  A SearchResult is the record [index,     *)
(* element], with element <<arr[index]>> or Undefined.                     *)

Found(arr, i) == [index |-> i, element |-> <<arr[i]>>]

NotFound == [index |-> -1, element |-> Undefined]

\* one iteration of linearSearch's for loop; st = [i, found]
linearStep(st, arr, target, o) ==
    IF Compare(o, arr[st.i], target) = 0
    THEN [st EXCEPT !.found = TRUE]
    ELSE [st EXCEPT !.i = @ + 1]

RECURSIVE linearLoop(_, _, _, _, _)
linearLoop(st, arr, target, o, n) ==
    IF st.found \/ ~(st.i < Length(arr)) THEN st
    ELSE IF n <= 1 THEN linearStep(st, arr, target, o)
    ELSE linearLoop(linearLoop(st, arr, target, o, n \div 2), arr, target, o, n - n \div 2)

linearResult(st, arr) == IF st.found THEN Found(arr, st.i) ELSE NotFound

linearSearch(arr, target, o) ==
    linearResult(linearLoop([i |-> 0, found |-> FALSE], arr, target, o, Length(arr)), arr)

RECURSIVE binarySearchRange(_, _, _, _, _)
binarySearchRange(arr, target, left, right, o) ==
    IF ~(left <= right) THEN NotFound
    ELSE LET mid == (left + right) \div 2
             comparison == Compare(o, arr[mid], target)
         IN  IF comparison = 0 THEN Found(arr, mid)
             ELSE IF comparison < 0 THEN binarySearchRange(arr, target, mid + 1, right, o)
             ELSE binarySearchRange(arr, target, left, mid - 1, o)

\* binarySearch runs the loop of binarySearchRange over the whole array
binarySearch(arr, target, o) == binarySearchRange(arr, target, 0, Length(arr) - 1, o)

foundAt(arr, result) == IF result # -1 THEN Found(arr, result) ELSE NotFound

RECURSIVE binarySearchFirstLoop(_, _, _, _, _, _)
binarySearchFirstLoop(arr, target, left, right, result, o) ==
    IF ~(left <= right) THEN foundAt(arr, result)
    ELSE LET mid == (left + right) \div 2
             comparison == Compare(o, arr[mid], target)
         IN  IF comparison = 0
             THEN binarySearchFirstLoop(arr, target, left, mid - 1, mid, o)
             ELSE IF comparison < 0
             THEN binarySearchFirstLoop(arr, target, mid + 1, right, result, o)
             ELSE binarySearchFirstLoop(arr, target, left, mid - 1, result, o)

binarySearchFirst(arr, target, o) ==
    binarySearchFirstLoop(arr, target, 0, Length(arr) - 1, -1, o)

RECURSIVE binarySearchLastLoop(_, _, _, _, _, _)
binarySearchLastLoop(arr, target, left, right, result, o) ==
    IF ~(left <= right) THEN foundAt(arr, result)
    ELSE LET mid == (left + right) \div 2
             comparison == Compare(o, arr[mid], target)
         IN  IF comparison = 0
             THEN binarySearchLastLoop(arr, target, mid + 1, right, mid, o)
             ELSE IF comparison < 0
             THEN binarySearchLastLoop(arr, target, mid + 1, right, result, o)
             ELSE binarySearchLastLoop(arr, target, left, mid - 1, result, o)

\* a faulty variant, which stops at the first match it probes
binarySearchLast_AnyMatch(arr, target, o) == binarySearch(arr, target, o)

binarySearchLast(arr, target, o) ==
    binarySearchLastLoop(arr, target, 0, Length(arr) - 1, -1, o)


\* Math.min(a, b)
min2(a, b) == IF a < b THEN a ELSE b

RECURSIVE interpolationLoop(_, _, _, _, _)
\* the while loop of interpolationSearch.  The probe is left + the floor of
\* (right - left) * compare(target, arr[left]) / compare(arr[right], arr[left]).
\* When the divisor is 0 the quotient is NaN or an infinity, and so are pos and,
\* as arr[pos] is undefined and the comparison NaN, right = pos - 1: the loop's
\* condition is then false and the search returns -1.
interpolationLoop(arr, target, left, right, o) ==
    IF ~(/\ left <= right
         /\ Compare(o, arr[left], target) <= 0
         /\ Compare(o, arr[right], target) >= 0) THEN NotFound
    ELSE IF left = right
    THEN IF Compare(o, arr[left], target) = 0 THEN Found(arr, left) ELSE NotFound
    ELSE IF Compare(o, arr[right], arr[left]) = 0 THEN NotFound
    ELSE LET pos == left + ((right - left) * Compare(o, target, arr[left]))
                               \div Compare(o, arr[right], arr[left])
         IN  IF Compare(o, arr[pos], target) = 0 THEN Found(arr, pos)
             ELSE IF Compare(o, arr[pos], target) < 0
             THEN interpolationLoop(arr, target, pos + 1, right, o)
             ELSE interpolationLoop(arr, target, left, pos - 1, o)

interpolationSearch(arr, target, o) ==
    interpolationLoop(arr, target, 0, Length(arr) - 1, o)

RECURSIVE exponentialRange(_, _, _, _)
\* the while loop of exponentialSearch, which doubles i
exponentialRange(arr, target, i, o) ==
    IF i < Length(arr) /\ Compare(o, arr[i], target) <= 0
    THEN exponentialRange(arr, target, i * 2, o)
    ELSE i

exponentialFrom(arr, target, i, o) ==
    binarySearchRange(arr, target, i \div 2, min2(i, Length(arr) - 1), o)

exponentialSearch(arr, target, o) ==
    IF Length(arr) = 0 THEN NotFound
    ELSE IF Compare(o, arr[0], target) = 0 THEN Found(arr, 0)
    ELSE exponentialFrom(arr, target, exponentialRange(arr, target, 1, o), o)

\* Math.floor(Math.sqrt(n))
floorSqrt(n) == CHOOSE r \in 0..n : r * r <= n /\ (r + 1) * (r + 1) > n

RECURSIVE jumpScan(_, _, _, _, _)
\* the second while loop of jumpSearch: the linear search in the block
jumpScan(arr, target, prev, step, o) ==
    IF ~(prev < min2(step, Length(arr))) THEN NotFound
    ELSE IF Compare(o, arr[prev], target) = 0 THEN Found(arr, prev)
    ELSE jumpScan(arr, target, prev + 1, step, o)

RECURSIVE jumpBlocks(_, _, _, _, _, _)
\* the first while loop of jumpSearch.  Its body assigns to step, which is
\* declared const: where const is kept (constKept) the assignment throws a
\* TypeError, where const is compiled to var it is carried out.
jumpBlocks(arr, target, prev, step, constKept, o) ==
    IF prev < Length(arr) /\ Compare(o, arr[min2(step, Length(arr)) - 1], target) < 0
    THEN IF constKept THEN Threw("TypeError: Assignment to constant variable.")
         ELSE IF step >= Length(arr) THEN NotFound
         ELSE jumpBlocks(arr, target, step, step + floorSqrt(Length(arr)), constKept, o)
    ELSE jumpScan(arr, target, prev, step, o)

jumpSearch(arr, target, constKept, o) ==
    IF Length(arr) = 0 THEN NotFound
    ELSE jumpBlocks(arr, target, 0, floorSqrt(Length(arr)), constKept, o)

RECURSIVE fibonacciAtLeast(_, _, _, _)
\* the first while loop of fibonacciSearch: the Fibonacci numbers up to the
\* first that is >= n, as [fib2, fib1, fib]
fibonacciAtLeast(fib2, fib1, fib, n) ==
    IF fib < n THEN fibonacciAtLeast(fib1, fib, fib + fib1, n)
    ELSE [fib2 |-> fib2, fib1 |-> fib1, fib |-> fib]

\* the comparison of the last element, after the second loop
fibonacciLast(arr, target, fib1, offset, o) ==
    IF fib1 # 0 /\ offset < Length(arr) - 1 /\ Compare(o, arr[offset + 1], target) = 0
    THEN Found(arr, offset + 1)
    ELSE NotFound

RECURSIVE fibonacciLoop(_, _, _, _, _, _, _)
\* the second while loop of fibonacciSearch
fibonacciLoop(arr, target, fib2, fib1, fib, offset, o) ==
    IF ~(fib > 1) THEN fibonacciLast(arr, target, fib1, offset, o)
    ELSE LET i == min2(offset + fib2, Length(arr) - 1)
             comparison == Compare(o, arr[i], target)
         IN  IF comparison < 0
             THEN fibonacciLoop(arr, target, fib1 - fib2, fib2, fib1, i, o)
             ELSE IF comparison > 0
             THEN fibonacciLoop(arr, target, fib2 - (fib1 - fib2), fib1 - fib2, fib2,
                                offset, o)
             ELSE Found(arr, i)

fibonacciFrom(arr, target, f, o) ==
    fibonacciLoop(arr, target, f.fib2, f.fib1, f.fib, -1, o)

fibonacciSearch(arr, target, o) ==
    IF Length(arr) = 0 THEN NotFound
    ELSE fibonacciFrom(arr, target, fibonacciAtLeast(0, 1, 1, Length(arr)), o)

RECURSIVE ternaryLoop(_, _, _, _, _)
ternaryLoop(arr, target, left, right, o) ==
    IF ~(left <= right) THEN NotFound
    ELSE LET mid1 == left + (right - left) \div 3
             mid2 == right - (right - left) \div 3
         IN  IF Compare(o, arr[mid1], target) = 0 THEN Found(arr, mid1)
             ELSE IF Compare(o, arr[mid2], target) = 0 THEN Found(arr, mid2)
             ELSE IF Compare(o, arr[mid1], target) > 0
             THEN ternaryLoop(arr, target, left, mid1 - 1, o)
             ELSE IF Compare(o, arr[mid2], target) < 0
             THEN ternaryLoop(arr, target, mid2 + 1, right, o)
             ELSE ternaryLoop(arr, target, mid1 + 1, mid2 - 1, o)

ternarySearch(arr, target, o) == ternaryLoop(arr, target, 0, Length(arr) - 1, o)

-----------------------------------------------------------------------------
(* Search calls: the caller holds an array sorted under the effective      *)
(* comparator and searches it for a target                                *)

MaxSearchLen == 7
MaxSearchVal == 3

\* the targets: every value of the arrays, one below them and one above
SearchTargets == (-1)..(MaxSearchVal + 1)

\* every array over 0..MaxSearchVal of up to MaxSearchLen elements that is
\* non-decreasing under the comparator of o
SortedInputs(o) ==
    {a \in ArraysUpTo(MaxSearchLen, 0..MaxSearchVal) : Ordered(a, o)}

InitSearch ==
    /\ options \in SortOptionsSet
    /\ input \in SortedInputs(options)
    /\ SortIdle
    /\ NoObject

\* the call of one search; lastCall holds the target, outcome the SearchResult
Search(name, target, res) ==
    /\ algorithm = "none"
    /\ algorithm' = name
    /\ lastCall' = [op |-> "search", target |-> target]
    /\ outcome' = res
    /\ UNCHANGED <<input, options, maxDepth, hashVars, treeVars, ops>>

CallLinearSearch ==
    \E t \in SearchTargets : Search("linearSearch", t, linearSearch(input, t, options))

CallBinarySearch ==
    \E t \in SearchTargets : Search("binarySearch", t, binarySearch(input, t, options))

CallBinarySearchFirst ==
    \E t \in SearchTargets :
        Search("binarySearchFirst", t, binarySearchFirst(input, t, options))

CallBinarySearchLast ==
    \E t \in SearchTargets :
        Search("binarySearchLast", t, binarySearchLast(input, t, options))

CallInterpolationSearch ==
    \E t \in SearchTargets :
        Search("interpolationSearch", t, interpolationSearch(input, t, options))

CallExponentialSearch ==
    \E t \in SearchTargets :
        Search("exponentialSearch", t, exponentialSearch(input, t, options))

\* jumpSearch, in a build that keeps const or in one that compiles it to var
CallJumpSearch ==
    \E t \in SearchTargets, constKept \in BOOLEAN :
        Search("jumpSearch", t, jumpSearch(input, t, constKept, options))

CallFibonacciSearch ==
    \E t \in SearchTargets :
        Search("fibonacciSearch", t, fibonacciSearch(input, t, options))

CallTernarySearch ==
    \E t \in SearchTargets : Search("ternarySearch", t, ternarySearch(input, t, options))

NextSearch ==
    \/ CallLinearSearch
    \/ CallBinarySearch
    \/ CallBinarySearchFirst
    \/ CallBinarySearchLast
    \/ CallInterpolationSearch
    \/ CallExponentialSearch
    \/ CallJumpSearch
    \/ CallFibonacciSearch
    \/ CallTernarySearch

SpecSearch == InitSearch /\ [][NextSearch]_vars

Searched(names) == lastCall # NotUsed /\ lastCall.op = "search" /\ algorithm \in names

\* the indices at which the array holds an element equal to the target
Occurrences(arr, target, o) == {i \in DOMAIN arr : Compare(o, arr[i], target) = 0}

\* res is not-found when the target is absent, and else names one of indices
FindsOneOf(res, indices, arr, target, o) ==
    IF Occurrences(arr, target, o) = {} THEN res = NotFound
    ELSE res.index \in indices /\ res.element = <<arr[res.index]>>

Lowest(S) == {i \in S : \A j \in S : i <= j}

Highest(S) == {i \in S : \A j \in S : i >= j}

\* C16: on an array sorted under the effective comparator, binarySearch returns
\* -1 with no element iff the target is absent and otherwise an index i with
\* arr[i] equal to the target; binarySearchFirst returns the smallest such index
\* and binarySearchLast the largest.
C16_BinarySearch ==
    /\ Searched({"binarySearch"})
         => FindsOneOf(outcome, Occurrences(input, lastCall.target, options),
                       input, lastCall.target, options)
    /\ Searched({"binarySearchFirst"})
         => FindsOneOf(outcome, Lowest(Occurrences(input, lastCall.target, options)),
                       input, lastCall.target, options)
    /\ Searched({"binarySearchLast"})
         => FindsOneOf(outcome, Highest(Occurrences(input, lastCall.target, options)),
                       input, lastCall.target, options)

\* binarySearchLast has found the last of several occurrences, which begin
\* beyond the start of a descending array
C16_Witness ==
    /\ Searched({"binarySearchLast"})
    /\ options.descending
    /\ Cardinality(Occurrences(input, lastCall.target, options)) > 1
    /\ 0 \notin Occurrences(input, lastCall.target, options)
    /\ outcome.index \in Highest(Occurrences(input, lastCall.target, options))


\* C17: on every sorted array of numbers (repeated values included) with the
\* numeric comparator, interpolationSearch ends and returns an index i with
\* arr[i] equal to the target whenever the target occurs in the array, and -1
\* otherwise.
C17_InterpolationSearch ==
    (Searched({"interpolationSearch"}) /\ ~options.descending)
        => FindsOneOf(outcome, Occurrences(input, lastCall.target, options),
                      input, lastCall.target, options)

\* the search returned, and found an occurrence exactly when linearSearch does
AgreesWithLinear(res, arr, target, o) ==
    /\ "error" \notin DOMAIN res
    /\ (res.index = -1) <=> (linearSearch(arr, target, o).index = -1)
    /\ res.index # -1
         => res.index \in Occurrences(arr, target, o) /\ res.element = <<arr[res.index]>>

\* C18: on every sorted array, exponentialSearch, jumpSearch, fibonacciSearch and
\* ternarySearch each agree with linearSearch on membership: they return an index
\* i with arr[i] equal to the target iff the target occurs in the array, wherever
\* it lies, and -1 otherwise.
C18_AgreeWithLinear ==
    Searched({"exponentialSearch", "jumpSearch", "fibonacciSearch", "ternarySearch"})
        => AgreesWithLinear(outcome, input, lastCall.target, options)

-----------------------------------------------------------------------------
(* SearchAlgorithms: the search that selects an algorithm                  *)

\* isSorted compares with options.compare || ((a, b) => a - b); it does not
\* read options.descending
SearchAlgorithms_isSorted(arr, o) ==
    \/ Length(arr) <= 1
    \/ \A i \in 1..(Length(arr) - 1) : ~(compareOption(o, arr[i - 1], arr[i]) > 0)

RECURSIVE buildHashTable(_, _, _, _)
\* the for loop of searchWithHashTable: hashTable.put(arr[i], i) for i in from..to-1
buildHashTable(h, arr, from, to) ==
    Then(h,
    IF from >= to THEN h
    ELSE IF to - from = 1 THEN put(h, arr[from], from)
    ELSE buildHashTable(buildHashTable(h, arr, from, (from + to) \div 2),
                        arr, (from + to) \div 2, to))

hashTableResult(arr, index) ==
    IF index # Undefined THEN Found(arr, index[1]) ELSE NotFound

\* index.ts re-exports HashTable without importing it: the name is bound in
\* searchWithHashTable only where a bundler has put the class in the same scope
searchWithHashTable(arr, target, bound, o) ==
    IF ~bound THEN Threw("ReferenceError: HashTable is not defined")
    ELSE hashTableResult(arr,
             get(buildHashTable(NewHashTable(DEFAULT_INITIAL_CAPACITY), arr, 0, Length(arr)),
                 target))

SearchAlgorithms_search(arr, target, bound, o) ==
    IF SearchAlgorithms_isSorted(arr, o) THEN binarySearch(arr, target, o)
    ELSE IF Length(arr) <= SmallArrayLength THEN linearSearch(arr, target, o)
    ELSE searchWithHashTable(arr, target, bound, o)

\* every short array, sorted or not, and arrays on both sides of SmallArrayLength
AutoSearchInputs ==
    ArraysUpTo(MaxSmallLen - 1, 0..MaxSmallVal)
    \cup PatternArrays(SmallArrayLength..(SmallArrayLength + 1), {MaxMod, BigMod})

InitAutoSearch ==
    /\ input \in AutoSearchInputs
    /\ options \in SortOptionsSet
    /\ SortIdle
    /\ NoObject

CallSearch ==
    \E t \in 0..BigMod, bound \in BOOLEAN :
        Search("SearchAlgorithms.search", t,
               SearchAlgorithms_search(input, t, bound, options))

NextAutoSearch == CallSearch

SpecAutoSearch == InitAutoSearch /\ [][NextAutoSearch]_vars

\* C19: SearchAlgorithms.search uses binary search only when the array is sorted
\* under the effective comparator (descending applied); in every branch and for
\* every option combination it returns an index i with arr[i] equal to the target
\* whenever the target occurs in the array, and -1 otherwise.
C19_SearchFinds ==
    Searched({"SearchAlgorithms.search"})
        => /\ SearchAlgorithms_isSorted(input, options) => Ordered(input, options)
           /\ Returned
           /\ FindsOneOf(outcome, Occurrences(input, lastCall.target, options),
                         input, lastCall.target, options)

-----------------------------------------------------------------------------
(* HashMap and HashSet, which wrap a default-constructed HashTable, and     *)
(* calls with string keys                                                 *)

NewHashMap == [class |-> "HashMap", hashTable |-> NewHashTable(DEFAULT_INITIAL_CAPACITY)]

HashMap_set(m, key, value) == [m EXCEPT !.hashTable = put(@, key, value)]

HashMap_get(m, key) == get(m.hashTable, key)

HashMap_has(m, key) == has(m.hashTable, key)

NewHashSet == [class |-> "HashSet", hashTable |-> NewHashTable(DEFAULT_INITIAL_CAPACITY)]

HashSet_add(s, element) == [s EXCEPT !.hashTable = put(@, element, TRUE)]

HashSet_has(s, element) == has(s.hashTable, element)

getSize(h) == h.size

IsA(o, class) == "class" \in DOMAIN o /\ o.class = class

\* the string keys "a", "b", "ab" and "7"
StringKeySet == {StringKeyBase + i : i \in 0..(Len(StringKeys) - 1)}

InitStringKeys ==
    /\ ht \in {NewHashTable(DEFAULT_INITIAL_CAPACITY), NewHashMap, NewHashSet}
    /\ ops = 0
    /\ lastCall = [op |-> "none", key |-> 0]
    /\ puts = [k \in StringKeySet |-> Undefined]
    /\ absent = {}
    /\ TreeIdle
    /\ NoSort

\* a put, set or add of a string key has given the object o
StringKeyPut(op, o, key, value) ==
    /\ ops < MaxHashOps
    /\ ht' = o
    /\ ops' = ops + 1
    /\ lastCall' = [op |-> op, key |-> key]
    /\ puts' = [puts EXCEPT ![key] = <<value>>]
    /\ UNCHANGED <<absent, sortVars, treeVars>>

CallPutString ==
    \E key \in StringKeySet, value \in HashValues :
        /\ ~IsA(ht, "HashMap") /\ ~IsA(ht, "HashSet")
        /\ StringKeyPut("put", put(ht, key, value), key, value)

CallMapSet ==
    \E key \in StringKeySet, value \in HashValues :
        /\ IsA(ht, "HashMap")
        /\ StringKeyPut("set", HashMap_set(ht, key, value), key, value)

CallSetAdd ==
    \E element \in StringKeySet :
        /\ IsA(ht, "HashSet")
        /\ StringKeyPut("add", HashSet_add(ht, element), element, TRUE)

NextStringKeys == CallPutString \/ CallMapSet \/ CallSetAdd

SpecStringKeys == InitStringKeys /\ [][NextStringKeys]_vars

\* the HashTable of the object
TableOf(o) == IF IsA(o, "HashMap") \/ IsA(o, "HashSet") THEN o.hashTable ELSE o

Lookup(o, key) ==
    IF IsA(o, "HashMap") THEN HashMap_get(o, key)
    ELSE IF IsA(o, "HashSet") THEN (IF HashSet_has(o, key) THEN <<TRUE>> ELSE Undefined)
    ELSE get(o, key)

Contains(o, key) ==
    IF IsA(o, "HashMap") THEN HashMap_has(o, key)
    ELSE IF IsA(o, "HashSet") THEN HashSet_has(o, key)
    ELSE has(o, key)

\* C20: a default-constructed HashTable, HashMap or HashSet works with string
\* keys: after put(k, v) with a string k, get(k) returns v and has(k) is true,
\* and a second put with the same string updates the entry instead of adding
\* another.
C20_StringKeys ==
    /\ \A k \in StringKeySet :
           puts[k] # Undefined => Lookup(ht, k) = puts[k] /\ Contains(ht, k)
    /\ getSize(TableOf(ht)) = Cardinality({k \in StringKeySet : puts[k] # Undefined})

-----------------------------------------------------------------------------
(* BinarySearchTree and AVLTree search.  insert(key, value?) stores the    *)
(* value argument in the node, undefined when the caller passes none, and  *)
(* search returns the node's value.  In these calls a value that was       *)
(* passed is <<v>> and undefined is <<>>.                                  *)

\* search: node ? node.value : undefined
searchValue(t, node) == IF node # NullNode THEN t.nodes[node].value ELSE Undefined

BST_search(t, key) == searchValue(t, findNode(t.nodes, t.root, key))

AVL_search(t, key) == searchValue(t, findNode(t.nodes, t.root, key))

MaxTreeCalls == 4   \* calls made on one tree that is searched

\* what a caller passes after the key: nothing, or a value
ValueArguments == {Undefined, <<CallValue>>}

InitTreeSearch ==
    /\ tree \in {NewBinarySearchTree, NewAVLTree}
    /\ stored = {}
    /\ ops = 0
    /\ lastCall = [op |-> "none", key |-> 0, result |-> Undefined, present |-> FALSE]
    /\ HashIdle
    /\ NoSort

\* insert(key) or insert(key, value) has returned t
TreeInserted(t, key) ==
    /\ tree' = t
    /\ stored' = stored \cup {key}
    /\ ops' = ops + 1
    /\ lastCall' = [op |-> "insert", key |-> key, result |-> Undefined,
                    present |-> key \in stored]
    /\ UNCHANGED <<sortVars, hashVars>>

\* search(key) has returned result
TreeSearched(key, result) ==
    /\ ops' = ops + 1
    /\ lastCall' = [op |-> "search", key |-> key, result |-> result,
                    present |-> key \in stored]
    /\ UNCHANGED <<sortVars, hashVars, treeVars>>

CallBSTInsertOptional ==
    \E key \in TreeKeys, value \in ValueArguments :
        /\ tree.class = "BinarySearchTree"
        /\ ops < MaxTreeCalls
        /\ TreeInserted(BST_insert(tree, key, value), key)

CallAVLInsertOptional ==
    \E key \in TreeKeys, value \in ValueArguments :
        /\ tree.class = "AVLTree"
        /\ ops < MaxTreeCalls
        /\ TreeInserted(AVL_insert(tree, key, value), key)

CallBSTSearch ==
    \E key \in TreeKeys :
        /\ tree.class = "BinarySearchTree"
        /\ ops < MaxTreeCalls
        /\ TreeSearched(key, BST_search(tree, key))

CallAVLSearch ==
    \E key \in TreeKeys :
        /\ tree.class = "AVLTree"
        /\ ops < MaxTreeCalls
        /\ TreeSearched(key, AVL_search(tree, key))

NextTreeSearch ==
    CallBSTInsertOptional \/ CallAVLInsertOptional \/ CallBSTSearch \/ CallAVLSearch

SpecTreeSearch == InitTreeSearch /\ [][NextTreeSearch]_vars

\* C21: on a BinarySearchTree or an AVLTree, search(k) returns a defined result
\* for every key k that was inserted, with or without a value, and undefined for
\* every key that was never inserted.
C21_SearchDefined ==
    lastCall.op = "search" => (lastCall.result # Undefined <=> lastCall.present)

-----------------------------------------------------------------------------
(* Arguments that are not arrays.  The value a caller passes where an array *)
(* is expected is the record [type, items]: null, undefined, a number, a   *)
(* string (items are its characters), an array-like object { 0: ..,        *)
(* length: n }, a Uint8Array, or an Array.                                 *)

JSValue(type, items) == [type |-> type, items |-> items]

Array_isArray(x) == x.type = "Array"

\* reading a property of null or undefined throws a TypeError
IsNullish(x) == x.type \in {"null", "undefined"}

TypeError == Threw("TypeError")

\* x.length: <<n>>, or undefined for a number
lengthOf(x) ==
    IF x.type \in {"string", "object", "Uint8Array", "Array"} THEN <<Length(x.items)>>
    ELSE Undefined

\* x.length <= n and x.length > n, which are both false when x.length is undefined
LengthLE(x, n) == lengthOf(x) # Undefined /\ lengthOf(x)[1] <= n
LengthGT(x, n) == lengthOf(x) # Undefined /\ lengthOf(x)[1] > n

\* whether [...x] can be evaluated
Iterable(x) == x.type \in {"string", "Uint8Array", "Array"}

\* typeof x[0]
typeofFirst(x) ==
    IF At(x.items, 0) = Undefined THEN "undefined"
    ELSE IF x.items[0] >= StringKeyBase THEN "string"
    ELSE "number"

\* validateArray(arr), followed by the rest of the function, which returns res
validateArray(x, res) == IF ~Array_isArray(x) THEN Threw("Input must be an array") ELSE res

\* QuickSort.sort, ..., RadixSort.sort called with any value
sorterOn(alg, x, o) == validateArray(x, Sorter(alg, x.items, o))

\* Sort.sort called with any value
Sort_sortOn(x, alg, o) ==
    IF alg = "radixSort"
    THEN IF IsNullish(x) THEN TypeError
         ELSE IF typeofFirst(x) = "number"
         THEN sorterOn(alg, x, [base |-> radixBase] @@ o)
         ELSE Threw("RadixSort is only supported for numbers")
    ELSE IF alg \in AlgorithmType THEN sorterOn(alg, x, o)
    ELSE Threw("Unknown algorithm")

\* Sort.autoSort called with any value
Sort_autoSortOn(x, o) ==
    IF IsNullish(x) THEN TypeError
    ELSE IF LengthLE(x, 1)
    THEN IF Iterable(x)
         THEN [result |-> x.items @@ EmptyArr,
               metrics |-> [comparisons |-> 0, swaps |-> 0],
               object |-> Spread]
         ELSE TypeError
    ELSE IF LengthLE(x, SmallArrayLength) THEN sorterOn("quickSort", x, o)
    ELSE IF LengthGT(x, LargeArrayLength) THEN sorterOn("timSort", x, o)
    ELSE sorterOn("introSort", x, o)

\* Search.linearSearch and Search.binarySearch called with any value
linearSearchOn(x, target, o) == validateArray(x, linearSearch(x.items, target, o))
binarySearchOn(x, target, o) == validateArray(x, binarySearch(x.items, target, o))

\* SearchAlgorithms.isSorted on a value that is not null or undefined: the loop
\* does not run when length is undefined, and the difference of two characters
\* that are not digits is NaN, which is not > 0
isSortedOn(x, o) ==
    \/ lengthOf(x) = Undefined
    \/ LengthLE(x, 1)
    \/ IF x.type = "string"
       THEN \A i \in 1..(Length(x.items) - 1) :
                \/ HashTable_compare(x.items[i - 1], x.items[i]) = NaN
                \/ HashTable_compare(x.items[i - 1], x.items[i])[1] <= 0
       ELSE SearchAlgorithms_isSorted(x.items, o)

\* SearchAlgorithms.search called with any value; searchWithHashTable does not
\* call validateArray
SearchAlgorithms_searchOn(x, target, bound, o) ==
    IF IsNullish(x) THEN TypeError
    ELSE IF isSortedOn(x, o) THEN binarySearchOn(x, target, o)
    ELSE IF LengthLE(x, SmallArrayLength) THEN linearSearchOn(x, target, o)
    ELSE searchWithHashTable(x.items, target, bound, o)

\* the strings "", "a" and "ab"
Strings == {EmptyArr, 0 :> StringKeyBase, (0 :> StringKeyBase) @@ (1 :> (StringKeyBase + 1))}

NonArrays ==
    {JSValue(type, EmptyArr) : type \in {"null", "undefined", "number"}}
    \cup {JSValue("string", s) : s \in Strings}
    \cup {JSValue(type, a) : type \in {"object", "Uint8Array"},
                             a \in ArraysUpTo(2, 0..1)
                                   \cup {Pattern(SmallArrayLength + 1, 1, 1, MaxMod)}}

Arrays == {JSValue("Array", a) : a \in ArraysUpTo(2, 0..MaxSmallVal)}

InitAnyValue ==
    /\ input \in NonArrays \cup Arrays
    /\ options \in [descending : BOOLEAN, inPlace : BOOLEAN]
    /\ SortIdle
    /\ NoObject

\* the call of one entry point with the value input
EnterOn(entry, alg, res) ==
    /\ algorithm = "none"
    /\ algorithm' = alg
    /\ lastCall' = [op |-> entry]
    /\ outcome' = res
    /\ UNCHANGED <<input, options, maxDepth, hashVars, treeVars, ops>>

CallSorterOn ==
    \E alg \in AlgorithmType : EnterOn("sorter", alg, sorterOn(alg, input, options))

CallSortOn ==
    \E alg \in AlgorithmType \cup {"bubbleSort"} :
        EnterOn("Sort.sort", alg, Sort_sortOn(input, alg, options))

CallAutoSortOn == EnterOn("Sort.autoSort", "autoSort", Sort_autoSortOn(input, options))

CallLinearSearchOn ==
    \E target \in 0..1 :
        EnterOn("Search.linearSearch", "linearSearch", linearSearchOn(input, target, options))

CallBinarySearchOn ==
    \E target \in 0..1 :
        EnterOn("Search.binarySearch", "binarySearch", binarySearchOn(input, target, options))

CallSearchOn ==
    \E target \in 0..1, bound \in BOOLEAN :
        EnterOn("SearchAlgorithms.search", "search",
                SearchAlgorithms_searchOn(input, target, bound, options))

NextAnyValue ==
    \/ CallSorterOn
    \/ CallSortOn
    \/ CallAutoSortOn
    \/ CallLinearSearchOn
    \/ CallBinarySearchOn
    \/ CallSearchOn

SpecAnyValue == InitAnyValue /\ [][NextAnyValue]_vars

\* C22: every sort and search entry point throws, returning no result, when the
\* sequence argument is not an array, and Sort.sort throws for an algorithm name
\* outside the supported set.
C22_InvalidInputThrows ==
    lastCall # NotUsed =>
        /\ ~Array_isArray(input) => ~Returned
        /\ (lastCall.op = "Sort.sort" /\ algorithm \notin AlgorithmType) => ~Returned

-----------------------------------------------------------------------------
(* RadixSort (MSD) *)

\* the elements of arr whose digit at position digit is d, in their order in arr
digitBucket(arr, digit, base, d) ==
    LET at == {i \in DOMAIN arr : getDigit(arr[i], digit, base) = d}
    IN  [k \in 0..(Cardinality(at) - 1) |->
            arr[CHOOSE i \in at : Cardinality({j \in at : j < i}) = k]] @@ EmptyArr

\* createBuckets: buckets[d] for d in 0..base-1 (one swap is counted per element)
createBuckets(arr, digit, base) == [d \in 0..(base - 1) |-> digitBucket(arr, digit, base, d)]

\* for (const value of bucket) { arr[index] = value - offset; swaps++; index++ }
\* st = [s, index]; sorted is the bucket after the recursive call
copyBack(st, sorted, offset) ==
    [s |-> [arr |-> [i \in DOMAIN st.s.arr |->
                        IF i - st.index \in DOMAIN sorted.arr
                        THEN sorted.arr[i - st.index] - offset
                        ELSE st.s.arr[i]],
            comparisons |-> sorted.comparisons,
            swaps |-> sorted.swaps + Length(sorted.arr)],
     index |-> st.index + Length(sorted.arr)]

RECURSIVE msdRadixSort(_, _, _)
RECURSIVE bucketLoop(_, _, _, _, _, _)

\* for (const bucket of buckets) if (bucket.length > 0) { msdRadixSort(bucket, base,
\* metrics, digit + 1); copy back };  st = [s, index], d the number of the bucket
bucketLoop(st, buckets, d, offset, base, digit) ==
    IF d = base THEN st
    ELSE IF Length(buckets[d]) > 0
    THEN bucketLoop(copyBack(st,
                             msdRadixSort([st.s EXCEPT !.arr = buckets[d]], base, digit + 1),
                             offset),
                    buckets, d + 1, offset, base, digit)
    ELSE bucketLoop(st, buckets, d + 1, offset, base, digit)

\* msdRadixSort after offset is computed; adjustedArr[i] - offset is arr[i], so the
\* loop that restores the values when digit >= maxDigits leaves arr as it is
msdShifted(s, offset, base, digit) ==
    IF digit >= getDigitCount(MathMax(s.arr) + offset, base) THEN s
    ELSE bucketLoop([s |-> [s EXCEPT !.swaps = @ + Length(s.arr)], index |-> 0],
                    createBuckets([i \in DOMAIN s.arr |-> s.arr[i] + offset], digit, base),
                    0, offset, base, digit).s

msdRadixSort(s, base, digit) ==
    IF Length(s.arr) <= 1 THEN s
    ELSE msdShifted(s, IF MathMin(s.arr) < 0 THEN 0 - MathMin(s.arr) ELSE 0, base, digit)

RadixSort_sortMSD(arr, o) ==
    IF Length(arr) <= 1 THEN SortResult(NewMetrics(prepareArray(arr, o)))
    ELSE SortResult(msdRadixSort(NewMetrics(prepareArray(arr, o)), baseOption(o), 0))

CallSortMSD == Call("sortMSD", RadixSort_sortMSD(input, options))

NextMSD == CallSortMSD \/ CallRadixSort

SpecMSD == InitRadix /\ [][NextMSD]_vars

\* C27: for every array of integers, negative ones included, RadixSort.sortMSD
\* returns the same multiset of values in ascending numeric order, the array
\* that RadixSort.sort returns.
C27_MSDSorted ==
    algorithm = "sortMSD"
        => /\ SortedPermutation(outcome, input, [descending |-> FALSE])
           /\ outcome.result = RadixSort_sort(input, options).result

-----------------------------------------------------------------------------
(* RadixSort on elements that are not all numbers.  An element is a number *)
(* below StringKeyBase or one of the strings StringKeys; a value computed   *)
(* from such elements is <<n>> or NaN.                                      *)

\* typeof e === 'number'
IsNumber(e) == e < StringKeyBase

\* (e + 0) - 0, as lsdRadixSort computes it when offset is 0: a number is kept,
\* a string has "0" appended and is then converted to a number
adjustedBack(e) ==
    IF IsNumber(e) THEN <<e>>
    ELSE IF \A i \in 1..Len(stringOf(e)) : stringOf(e)[i] \in 48..57
    THEN <<digitsValue(Append(stringOf(e), 48))>>
    ELSE NaN

\* Math.max(...arr) is NaN
MaxIsNaN(arr) == \E i \in DOMAIN arr : ToNumber(arr[i]) = NaN

\* RadixSort.sort.  When Math.max(...arr) is NaN, so are min (offset is 0) and
\* maxDigits, the loop over the digits does not run, and arr[i] becomes
\* adjustedArr[i] - offset
RadixSort_sortOf(arr, o) ==
    IF Length(arr) <= 1 THEN SortResult(NewMetrics(prepareArray(arr, o)))
    ELSE IF MaxIsNaN(arr)
    THEN SortResult(NewMetrics([i \in DOMAIN arr |-> adjustedBack(arr[i])]))
    ELSE RadixSort_sort(arr, o)

\* RadixSort.sortMSD.  When Math.max(...arr) is NaN, digit >= maxDigits is false
\* and createBuckets reads buckets[NaN].push for the first string
RadixSort_sortMSDOf(arr, o) ==
    IF Length(arr) <= 1 THEN SortResult(NewMetrics(prepareArray(arr, o)))
    ELSE IF MaxIsNaN(arr) THEN TypeError
    ELSE RadixSort_sortMSD(arr, o)

\* pos < arr[i].length ? arr[i].charCodeAt(pos) : 0
charAt(e, pos) == IF pos < Len(stringOf(e)) THEN stringOf(e)[pos + 1] ELSE 0

\* one pass of lsdStringRadixSort: a stable counting sort by the character at pos
stringPass(s, pos) ==
    [s EXCEPT !.arr = [k \in DOMAIN s.arr |->
                          s.arr[CHOOSE i \in DOMAIN s.arr :
                                    Cardinality({j \in DOMAIN s.arr :
                                        \/ charAt(s.arr[j], pos) < charAt(s.arr[i], pos)
                                        \/ /\ charAt(s.arr[j], pos) = charAt(s.arr[i], pos)
                                           /\ j < i}) = k]],
              !.swaps = @ + 2 * Length(s.arr)]

RECURSIVE lsdStringRadixSort(_, _)
\* for (pos = maxLength - 1; pos >= 0; pos--)
lsdStringRadixSort(s, pos) ==
    IF pos >= 0 THEN lsdStringRadixSort(stringPass(s, pos), pos - 1) ELSE s

\* Math.max(...arr.map(s => s.length)), for strings
maxLengthOf(arr) == MathMax([i \in DOMAIN arr |-> Len(stringOf(arr[i]))])

\* RadixSort.sortStrings.  The length of a number is undefined, so with a number
\* in arr maxLength is NaN and the loop over the positions does not run
RadixSort_sortStringsOf(arr, o) ==
    IF Length(arr) <= 1 THEN SortResult(NewMetrics(prepareArray(arr, o)))
    ELSE IF \E i \in DOMAIN arr : IsNumber(arr[i])
    THEN SortResult(NewMetrics(prepareArray(arr, o)))
    ELSE SortResult(lsdStringRadixSort(NewMetrics(prepareArray(arr, o)), maxLengthOf(arr) - 1))

\* Sort.sort(arr, 'radixSort', options)
Sort_sortRadixOf(arr, o) ==
    IF At(arr, 0) # Undefined /\ IsNumber(arr[0])
    THEN RadixSort_sortOf(arr, [base |-> radixBase] @@ o)
    ELSE Threw("RadixSort is only supported for numbers")

\* the numbers 0..MaxSmallVal and the strings "a", "b" and "ab"
MixedElements == 0..MaxSmallVal \cup StringKeyBase..(StringKeyBase + 2)

InitMixed ==
    /\ input \in ArraysUpTo(MaxRadixLen, MixedElements)
    /\ options \in SortOptionsSet
    /\ SortIdle
    /\ NoObject

CallRadixSortOf == EnterOn("RadixSort.sort", "radixSort", RadixSort_sortOf(input, options))

CallSortMSDOf == EnterOn("RadixSort.sortMSD", "sortMSD", RadixSort_sortMSDOf(input, options))

CallSortStringsOf ==
    EnterOn("RadixSort.sortStrings", "sortStrings", RadixSort_sortStringsOf(input, options))

CallSortRadixOf == EnterOn("Sort.sort", "radixSort", Sort_sortRadixOf(input, options))

NextMixed == CallRadixSortOf \/ CallSortMSDOf \/ CallSortStringsOf \/ CallSortRadixOf

SpecMixed == InitMixed /\ [][NextMixed]_vars

\* C23: radix sort called on elements that are not all numbers (not all strings,
\* for sortStrings) throws, through Sort.sort(arr, 'radixSort') and through
\* RadixSort.sort, sortMSD and sortStrings directly; it returns no result.
C23_RadixFailsFast ==
    lastCall # NotUsed =>
        IF lastCall.op = "RadixSort.sortStrings"
        THEN (\E i \in DOMAIN input : IsNumber(input[i])) => ~Returned
        ELSE (\E i \in DOMAIN input : ~IsNumber(input[i])) => ~Returned

-----------------------------------------------------------------------------
(* The benchmark facades.  A benchmark returns [results], the record of the *)
(* results by algorithm name; Sort.benchmark also logs a warning for each   *)
(* algorithm that threw.                                                    *)

\* a call returned r, it did not throw
IsResult(r) == "error" \notin DOMAIN r

\* the algorithms Sort.benchmark runs
Benchmarked == {"quickSort", "mergeSort", "heapSort", "timSort", "introSort"}

\* for (const algorithm of algorithms)
\*     try { results[algorithm] = this.sort(arr, algorithm, options) }
\*     catch (error) { console.warn(...) }
Sort_benchmark(x, o) ==
    [results |-> [alg \in {a \in Benchmarked : IsResult(Sort_sortOn(x, a, o))} |->
                     Sort_sortOn(x, alg, o)],
     warned |-> {a \in Benchmarked : ~IsResult(Sort_sortOn(x, a, o))}]

\* the searches SearchAlgorithms.benchmark runs on a sorted array, after linearSearch
sortedSearch(name, arr, target, constKept, o) ==
    CASE name = "binarySearch" -> binarySearch(arr, target, o)
      [] name = "interpolationSearch" -> interpolationSearch(arr, target, o)
      [] name = "exponentialSearch" -> exponentialSearch(arr, target, o)
      [] name = "jumpSearch" -> jumpSearch(arr, target, constKept, o)
      [] name = "fibonacciSearch" -> fibonacciSearch(arr, target, o)
      [] name = "ternarySearch" -> ternarySearch(arr, target, o)

SortedSearches ==
    {"binarySearch", "interpolationSearch", "exponentialSearch", "jumpSearch",
     "fibonacciSearch", "ternarySearch"}

\* SearchAlgorithms.benchmark after linearSearch returned first: no call is
\* inside a try, so the first search that throws ends the benchmark
benchmarkSorted(first, arr, target, constKept, o) ==
    IF ~SearchAlgorithms_isSorted(arr, o) THEN [results |-> [linearSearch |-> first]]
    ELSE IF \E name \in SortedSearches : ~IsResult(sortedSearch(name, arr, target, constKept, o))
    THEN sortedSearch(CHOOSE name \in SortedSearches :
                          ~IsResult(sortedSearch(name, arr, target, constKept, o)),
                      arr, target, constKept, o)
    ELSE [results |-> [name \in SortedSearches \cup {"linearSearch"} |->
                          IF name = "linearSearch" THEN first
                          ELSE sortedSearch(name, arr, target, constKept, o)]]

SearchAlgorithms_benchmark(x, target, constKept, o) ==
    IF ~IsResult(linearSearchOn(x, target, o)) THEN linearSearchOn(x, target, o)
    ELSE benchmarkSorted(linearSearchOn(x, target, o), x.items, target, constKept, o)

InitBenchmark ==
    /\ input \in NonArrays
                 \cup {JSValue("Array", a) : a \in ArraysUpTo(MaxSmallLen, 0..MaxSmallVal)}
    /\ options \in SortOptionsSet
    /\ SortIdle
    /\ NoObject

CallSortBenchmark == EnterOn("Sort.benchmark", "benchmark", Sort_benchmark(input, options))

CallSearchBenchmark ==
    \E target \in 0..MaxSmallVal, constKept \in BOOLEAN :
        EnterOn("SearchAlgorithms.benchmark", "benchmark",
                SearchAlgorithms_benchmark(input, target, constKept, options))

NextBenchmark == CallSortBenchmark \/ CallSearchBenchmark

SpecBenchmark == InitBenchmark /\ [][NextBenchmark]_vars

\* C24: Sort.benchmark and SearchAlgorithms.benchmark return when an algorithm
\* throws: the failure is caught, the other algorithms still run, and the call
\* returns their results instead of raising.
C24_BenchmarkReturns == lastCall # NotUsed => Returned

-----------------------------------------------------------------------------
(* The comparator invocations of QuickSort.  partition and insertionSort    *)
(* increment metrics.comparisons before each call of compare; medianOfThree *)
(* is not given the metrics and calls compare three times.                 *)

MedianOfThreeCompares == 3

\* quickSort up to the two recursive calls: what partition returned
partitioned(s, m, left, right, o) ==
    partition([s EXCEPT !.arr = swap(m.arr, m.index, right), !.swaps = @ + 1],
              left, right, o)

RECURSIVE medianOfThreeCalls(_, _, _, _)

\* the calls of medianOfThree in this call of quickSort and in its two recursive
\* calls, the second of which runs on the array the first one left
medianOfThreeCallsAround(p, left, right, o) ==
    1 + (IF left < p.index - 1 THEN medianOfThreeCalls(p.s, left, p.index - 1, o) ELSE 0)
      + (IF p.index + 1 < right
         THEN medianOfThreeCalls(IF left < p.index - 1
                                 THEN QuickSort_quickSort(p.s, left, p.index - 1, o)
                                 ELSE p.s,
                                 p.index + 1, right, o)
         ELSE 0)

\* the number of calls of medianOfThree that quickSort(arr, left, right) makes
medianOfThreeCalls(s, left, right, o) ==
    IF right - left + 1 <= QuickSort_INSERTION_SORT_THRESHOLD THEN 0
    ELSE medianOfThreeCallsAround(
             partitioned(s, medianOfThree(s.arr, left, right, o), left, right, o),
             left, right, o)

\* the number of times QuickSort.sort(arr, options) calls the comparator
QuickSort_invocations(arr, o) ==
    IF Length(arr) <= 1 THEN 0
    ELSE QuickSort_sort(arr, o).metrics.comparisons
         + MedianOfThreeCompares
             * medianOfThreeCalls(NewMetrics(prepareArray(arr, o)), 0, Length(arr) - 1, o)

\* QuickSort.sort with a comparator that counts its invocations
CallQuickSortCounting ==
    Call("quickSort",
         QuickSort_sort(input, options) @@ [invoked |-> QuickSort_invocations(input, options)])

NextMetrics == CallQuickSortCounting

SpecMetrics == InitBasic /\ [][NextMetrics]_vars

\* C25: when a sorter returns, metrics.comparisons is the number of times the
\* comparator was called during the call: every comparison is counted once.
C25_ComparisonsExact ==
    algorithm = "quickSort" => outcome.metrics.comparisons = outcome.invoked

-----------------------------------------------------------------------------
(* linearSearch with a comparator that returns a value that is not a        *)
(* number.  A value the comparator returns is [type, value]: a number       *)
(* (value <<n>>, or NaN), a string (value its characters) or undefined.     *)

Number(n) == [type |-> "number", value |-> n]

\* the values the comparators return: 'invalid', '0' and undefined
ReturnedValues ==
    {[type |-> "string", value |-> <<105, 110, 118, 97, 108, 105, 100>>],
     [type |-> "string", value |-> <<48>>],
     [type |-> "undefined", value |-> <<>>]}

\* -v: a string of digits is converted to its number, any other string and
\* undefined to NaN
Minus(v) ==
    IF v.type = "number" THEN Number(IF v.value = NaN THEN NaN ELSE <<0 - v.value[1]>>)
    ELSE IF v.type = "string" /\ \A i \in 1..Len(v.value) : v.value[i] \in 48..57
    THEN Number(<<0 - digitsValue(v.value)>>)
    ELSE Number(NaN)

\* options.compare(a, b): a comparator of the caller is () => options.compare
compareValue(o, a, b) ==
    IF "compare" \in DOMAIN o THEN o.compare ELSE Number(<<defaultCompare(a, b)>>)

\* createCompareFunction(options)(a, b)
CompareValue(o, a, b) ==
    IF o.descending THEN Minus(compareValue(o, a, b)) ELSE compareValue(o, a, b)

\* v === 0 (-0 === 0 is true)
StrictlyZero(v) == v.type = "number" /\ v.value = <<0>>

RECURSIVE linearSearchFrom(_, _, _, _)
\* for (i = 0; i < arr.length; i++) if (compare(arr[i], target) === 0) return ...
linearSearchFrom(arr, target, i, o) ==
    IF ~(i < Length(arr)) THEN NotFound
    ELSE IF StrictlyZero(CompareValue(o, arr[i], target)) THEN Found(arr, i)
    ELSE linearSearchFrom(arr, target, i + 1, o)

\* Search.linearSearch with any comparator
linearSearchWith(arr, target, o) == linearSearchFrom(arr, target, 0, o)

InitComparator ==
    /\ input \in ArraysUpTo(MaxSmallLen - 1, 0..MaxSmallVal)
    /\ options \in [descending : BOOLEAN, compare : ReturnedValues] \cup SortOptionsSet
    /\ SortIdle
    /\ NoObject

CallLinearSearchWith ==
    \E t \in 0..MaxSmallVal :
        Search("linearSearch", t, linearSearchWith(input, t, options))

NextComparator == CallLinearSearchWith

SpecComparator == InitComparator /\ [][NextComparator]_vars

\* C26: Search.linearSearch throws when the comparator, called on an element of
\* the array, returns a value that is not a number.
C26_ComparatorFault ==
    (algorithm = "linearSearch" /\ "compare" \in DOMAIN options /\ Length(input) > 0)
        => ~Returned

-----------------------------------------------------------------------------
(* TimSort.minRunLength, which timSort calls with the length of an array of *)
(* MIN_MERGE or more elements.  n >>= 1 and n & 1 are 32-bit operations,    *)
(* which are n \div 2 and n % 2 for the lengths below 2^31.                 *)

MaxLength == 200    \* every length from MIN_MERGE up to this one

RECURSIVE PowerOfTwo(_)
PowerOfTwo(k) == IF k = 0 THEN 1 ELSE 2 * PowerOfTwo(k - 1)

\* 2^31 - 1
MaxInt32 == PowerOfTwo(30) + (PowerOfTwo(30) - 1)

\* every length up to MaxLength, the lengths around each power of two, and the
\* greatest length below 2^31
Lengths ==
    MIN_MERGE..MaxLength
    \cup {PowerOfTwo(k) + d : k \in 6..30, d \in {-1, 0, 1}}
    \cup {MaxInt32}

InitMinRun ==
    /\ NoSort
    /\ NoObject

CallMinRunLength ==
    \E n \in Lengths :
        /\ ops = 0
        /\ ops' = 1
        /\ lastCall' = [op |-> "minRunLength", n |-> n, result |-> minRunLength(n)]
        /\ UNCHANGED <<sortVars, hashVars, treeVars>>

NextMinRun == CallMinRunLength

SpecMinRun == InitMinRun /\ [][NextMinRun]_vars

\* C28 as stated: for every array length n >= 32 the minimum run length that
\* TimSort computes lies in the range [32, 64].
C28_MinRunFrom32To64 ==
    lastCall # NotUsed => lastCall.result \in MIN_MERGE..(2 * MIN_MERGE)

\* C28: for every array length n >= 32 (below 2^31) the minimum run length that
\* TimSort computes lies in the range [16, 32]: the loop halves n until it is
\* below MIN_MERGE = 32, and at most 1 is added for the bits shifted out.
C28_MinRunFrom16To32 ==
    lastCall # NotUsed => lastCall.result \in (MIN_MERGE \div 2)..MIN_MERGE

\* a length of two or more times MIN_MERGE with a bit shifted out, for which
\* the result is MIN_MERGE itself
C28_Witness ==
    /\ lastCall # NotUsed
    /\ lastCall.n >= 2 * MIN_MERGE
    /\ lastCall.n % 2 = 1
    /\ lastCall.result = MIN_MERGE
    /\ C28_MinRunFrom16To32

-----------------------------------------------------------------------------
(* PriorityQueue, which HeapSort.createPriorityQueue returns.  The object is *)
(* [class, heap, compare]; compare names the comparator the caller passed:  *)
(* the default (a, b) => a - b, or (a, b) => b - a.                          *)

NewPriorityQueue(compare) == [class |-> "PriorityQueue", heap |-> EmptyArr, compare |-> compare]

\* this.compare(a, b)
queueCompare(q, a, b) == IF q.compare = "a - b" THEN a - b ELSE b - a

RECURSIVE bubbleUpLoop(_, _)
\* while (index > 0) { if (compare(heap[index], heap[parentIndex]) <= 0) break; swap }
bubbleUpLoop(q, index) ==
    IF ~(index > 0) THEN q
    ELSE IF queueCompare(q, q.heap[index], q.heap[(index - 1) \div 2]) <= 0 THEN q
    ELSE bubbleUpLoop([q EXCEPT !.heap = swap(q.heap, index, (index - 1) \div 2)],
                      (index - 1) \div 2)

bubbleUp(q, index) == bubbleUpLoop(q, index)

\* largest after the first if of bubbleDown's loop, and after the second
largestLeft(q, index) ==
    IF 2 * index + 1 < Length(q.heap)
       /\ queueCompare(q, q.heap[2 * index + 1], q.heap[index]) > 0
    THEN 2 * index + 1
    ELSE index

largestChild(q, index) ==
    IF 2 * index + 2 < Length(q.heap)
       /\ queueCompare(q, q.heap[2 * index + 2], q.heap[largestLeft(q, index)]) > 0
    THEN 2 * index + 2
    ELSE largestLeft(q, index)

RECURSIVE bubbleDownLoop(_, _)
\* while (true) { ...; if (largest === index) break; swap; index = largest }
bubbleDownLoop(q, index) ==
    IF largestChild(q, index) = index THEN q
    ELSE bubbleDownLoop([q EXCEPT !.heap = swap(q.heap, index, largestChild(q, index))],
                        largestChild(q, index))

\* a bubbleDown that leaves the heap as it is
bubbleDown_None(q, index) == q

bubbleDown(q, index) == bubbleDownLoop(q, index)

\* this.heap.push(element); this.bubbleUp(this.heap.length - 1)
enqueue(q, element) == bubbleUp([q EXCEPT !.heap = push(q.heap, element)], Length(q.heap))

\* dequeue after const last = this.heap.pop(), popped being the queue without
\* its last element
dequeuePopped(popped, last) ==
    IF Length(popped.heap) > 0
    THEN bubbleDown([popped EXCEPT !.heap[0] = last], 0)
    ELSE popped

\* dequeue returns [q, result]: the object after the call and the returned element
dequeue(q) ==
    IF Length(q.heap) = 0 THEN [q |-> q, result |-> Undefined]
    ELSE [q |-> dequeuePopped([q EXCEPT !.heap = Slice(q.heap, 0, Length(q.heap) - 1)],
                              q.heap[Length(q.heap) - 1]),
          result |-> <<q.heap[0]>>]

peek(q) == At(q.heap, 0)

size(q) == Length(q.heap)

MaxQueueOps == 6    \* calls made on one queue
MaxQueueVal == 2    \* the elements are 0..MaxQueueVal

QueueValues == 0..MaxQueueVal

\* stored is here the elements in the queue with their numbers of occurrences:
\* those enqueued and not dequeued since
NoneQueued == [v \in QueueValues |-> 0]

InitQueue ==
    /\ tree \in {NewPriorityQueue(compare) : compare \in {"a - b", "b - a"}}
    /\ stored = NoneQueued
    /\ ops = 0
    /\ lastCall = [op |-> "none", result |-> Undefined, before |-> NoneQueued]
    /\ HashIdle
    /\ NoSort

\* a call on the queue returned result and left the queue q with queued in it
QueueCalled(op, q, result, queued) ==
    /\ ops < MaxQueueOps
    /\ ops' = ops + 1
    /\ tree' = q
    /\ stored' = queued
    /\ lastCall' = [op |-> op, result |-> result, before |-> stored]
    /\ UNCHANGED <<sortVars, hashVars>>

CallEnqueue ==
    \E element \in QueueValues :
        QueueCalled("enqueue", enqueue(tree, element), Undefined,
                    [stored EXCEPT ![element] = @ + 1])

CallDequeue ==
    QueueCalled("dequeue", dequeue(tree).q, dequeue(tree).result,
                IF dequeue(tree).result = Undefined THEN stored
                ELSE [stored EXCEPT ![dequeue(tree).result[1]] = @ - 1])

CallPeek == QueueCalled("peek", tree, peek(tree), stored)

CallSize == QueueCalled("size", tree, <<size(tree)>>, stored)

NextQueue == CallEnqueue \/ CallDequeue \/ CallPeek \/ CallSize

SpecQueue == InitQueue /\ [][NextQueue]_vars

\* no child is greater than its parent under the comparator
IsMaxHeap(q) ==
    \A i \in 1..(Length(q.heap) - 1) :
        queueCompare(q, q.heap[i], q.heap[(i - 1) \div 2]) <= 0

\* result is an element of queued that no element of queued is greater than, or
\* undefined when queued is empty
Maximal(result, queued) ==
    IF \A v \in QueueValues : queued[v] = 0 THEN result = Undefined
    ELSE /\ result # Undefined
         /\ queued[result[1]] > 0
         /\ \A v \in QueueValues : queued[v] > 0 => queueCompare(tree, v, result[1]) <= 0

\* C29: after any sequence of enqueue and dequeue calls the backing array is a
\* max-heap under the comparator and holds the elements enqueued and not yet
\* dequeued; dequeue removes and returns a maximal element of the queue
\* (undefined when it is empty), peek returns that element without removing it,
\* and size() is the number of enqueues minus that of the successful dequeues.
C29_PriorityQueue ==
    /\ IsMaxHeap(tree)
    /\ \A v \in QueueValues : Cardinality({i \in DOMAIN tree.heap : tree.heap[i] = v}) = stored[v]
    /\ lastCall.op = "dequeue" =>
           /\ Maximal(lastCall.result, lastCall.before)
           /\ lastCall.result # Undefined =>
                  stored = [lastCall.before EXCEPT ![lastCall.result[1]] = @ - 1]
           /\ lastCall.result = Undefined => stored = lastCall.before
    /\ lastCall.op = "peek" => Maximal(lastCall.result, stored) /\ stored = lastCall.before
    /\ lastCall.op = "size" =>
           lastCall.result = <<Cardinality(DOMAIN tree.heap)>> /\ stored = lastCall.before

\* a dequeue from a queue of four or more elements that are not all equal has
\* returned the maximal one, and the last element has moved down from the root
C29_Witness ==
    /\ lastCall.op = "dequeue"
    /\ Length(tree.heap) >= 3
    /\ \E i \in DOMAIN tree.heap : tree.heap[i] # tree.heap[0]
    /\ lastCall.result # Undefined
    /\ C29_PriorityQueue

-----------------------------------------------------------------------------
(* getSize of the three trees, after any sequence of inserts (and, on the   *)
(* BinarySearchTree, deletes).                                              *)

BST_getSize(t) == t.size

AVL_getSize(t) == t.size

RECURSIVE getNodeSize(_, _)
RECURSIVE childrenSize(_, _, _)

\* for (const child of node.children) size += this.getNodeSize(child), from
\* the child at index j on
childrenSize(nodes, node, j) ==
    IF j >= Length(nodes[node].children) THEN 0
    ELSE getNodeSize(nodes, nodes[node].children[j]) + childrenSize(nodes, node, j + 1)

getNodeSize(nodes, node) ==
    IF ~nodes[node].isLeaf
    THEN nodes[node].size + childrenSize(nodes, node, 0)
    ELSE nodes[node].size

BTree_getSize(b) == getNodeSize(b.nodes, b.root)

\* the object is a BTree (it has a minimum degree t)
IsBTree(t) == "t" \in DOMAIN t

InitSize ==
    /\ tree \in {NewBinarySearchTree, NewAVLTree} \cup {NewBTree(t) : t \in {2, DEFAULT_DEGREE}}
    /\ stored = {}
    /\ ops = 0
    /\ lastCall = [op |-> "none", key |-> 0, result |-> FALSE, present |-> FALSE]
    /\ HashIdle
    /\ NoSort

CallInsertIntoBST == ~IsBTree(tree) /\ CallBSTInsert

CallDeleteFromBST == ~IsBTree(tree) /\ CallBSTDelete

CallInsertIntoAVL == ~IsBTree(tree) /\ CallAVLInsert

CallInsertIntoBTree == IsBTree(tree) /\ CallBTreeInsert

NextSize ==
    CallInsertIntoBST \/ CallDeleteFromBST \/ CallInsertIntoAVL \/ CallInsertIntoBTree

SpecSize == InitSize /\ [][NextSize]_vars

\* C30: after any sequence of operations getSize() is the number of keys the
\* tree holds: for a BinarySearchTree and an AVLTree the number of distinct
\* keys stored (inserting a key again only updates its value), for a BTree the
\* number of keys inserted, also after internal nodes have been split.
C30_GetSize ==
    IF IsBTree(tree) THEN BTree_getSize(tree) = Cardinality(stored)
    ELSE IF tree.class = "AVLTree" THEN AVL_getSize(tree) = Cardinality(stored)
    ELSE BST_getSize(tree) = Cardinality(stored)

=============================================================================
